---- MODULE Spec2Model ----
(***************************************************************************)
(* Code Wizard: the Ollama client (src/src/services/ollamaService.ts), the *)
(* command router and its handlers (src/src/components/CodeWizard.tsx) and *)
(* the command input (src/src/components/CommandInput.tsx), as one state   *)
(* machine.  Every action is one run-to-completion step of the JavaScript  *)
(* event loop: the code between two awaits or one timer callback.          *)
(***************************************************************************)
EXTENDS Integers, Sequences, FiniteSets, TLC

VARIABLES
    baseUrl,      \* OllamaService.baseUrl
    isRunning,    \* OllamaService.isRunning
    call,         \* the service method invocations in flight, by slot
    failStreak,   \* history: failed GET /api/tags since the last 200 or endpoint change
    epChanges,    \* history: number of setEndpoint calls made
    tests,        \* history: the testConnection runs of the settings panel
    input,        \* the raw string handed to handleSendCommand
    routed,       \* history: the handlers handleSendCommand dispatched it to
    aiResponse,   \* the text handed to parseCommandsFromAI, as its lines
    commands,     \* history: what parseCommandsFromAI returned for it
    os,           \* CommandService.os, from detectOS()
    output,       \* CodeWizard: the output log
    isProcessing, \* CodeWizard: the processing flag
    ollamaConnected,          \* CodeWizard state
    modelLoaded,              \* CodeWizard state
    showInstallInstructions,  \* CodeWizard state
    activeTab,                \* CodeWizard state
    timers,       \* pending setTimeout / setInterval callbacks
    sends,        \* handleSendCommand invocations suspended at an await
    invs,         \* history: the submitted commands, in order
    fetches,      \* history: requests put on the wire, per submitted command
    fileOps,      \* history: the operations started in the FileExplorer
    fileStructure,\* FileExplorer: whether a file tree is loaded
    checks,       \* history: the checkOllamaStatus runs, in the order they began
    toRead,       \* the reads a response body still has to deliver
    whole         \* history: that response body as one read

svcVars == <<baseUrl, isRunning, call, failStreak, epChanges, tests>>
routerVars == <<input, routed>>
extractVars == <<aiResponse, commands>>
splitVars == <<toRead, whole>>
fileVars == <<fileOps, fileStructure>>
uiVars == <<os, output, isProcessing, ollamaConnected, modelLoaded,
            showInstallInstructions, activeTab, timers, sends, invs, fetches,
            fileVars, checks>>
vars == <<svcVars, routerVars, extractVars, splitVars, uiVars>>

-----------------------------------------------------------------------------
(* Bounds of the model *)

MaxCalls == 2          \* service invocations that can be in flight together
MaxLines == 3          \* lines one response body delivers, over all its chunks
MaxStreak == 4         \* consecutive failed probes explored
MaxEpChanges == 1      \* setEndpoint calls explored
MaxWords == 3          \* words in one input string
MaxCmds == 1           \* commands submitted to the user interface
MaxSubmits == 2        \* commands submitted to the panel, one on top of another
MaxFileOps == 2        \* operations started in the file explorer
MaxUIReads == 1        \* chunks one response body delivers to the user interface
MaxBodyLines == 3      \* lines of a response body that the transport cuts into reads
MaxTextLines == 3      \* lines of a text handed to parseCommandsFromAI

CallIds == 1..MaxCalls

-----------------------------------------------------------------------------
(* The wire *)

DefaultEndpoint == "http://localhost:11434"

\* values handed to setEndpoint
Endpoints == {DefaultEndpoint, "http://h:1", "", "   "}

\* what a GET {endpoint}/api/tags can come back with
TagsOutcomes == {"200", "503", "neterr"}

\* what a POST {endpoint}/api/generate can come back with: a response with a
\* body, a response whose body is null, or a rejected fetch
PostOutcomes == {"body", "nobody", "neterr"}

\* one line of a streamed body; "" is a line that trims to nothing
ObjA == "{response:$ ls,done:false}"
ObjB == "{response:ok,done:true}"
Garbage == "{response:$ ls,do"
Lines == {ObjA, ObjB, Garbage, ""}

\* the response fields of ObjA and ObjB
RespA == "$ ls"
RespB == "ok"

\* a chunk is the text one reader.read() yields: its lines, joined by \n
RECURSIVE SeqsUpTo(_, _)
SeqsUpTo(S, n) ==
    IF n = 0 THEN {<<>>}
    ELSE LET shorter == SeqsUpTo(S, n - 1)
         IN  shorter \cup {Append(s, x) : s \in {t \in shorter : Len(t) = n - 1}, x \in S}

Chunks == SeqsUpTo(Lines, MaxLines) \ {<<>>}

\* JSON.parse of one line
JSONparse(line) ==
    CASE line = ObjA -> [ok |-> TRUE, response |-> RespA, done |-> FALSE]
      [] line = ObjB -> [ok |-> TRUE, response |-> RespB, done |-> TRUE]
      [] OTHER -> [ok |-> FALSE, response |-> "", done |-> FALSE]

-----------------------------------------------------------------------------
(* One invocation of a service method *)

IdleCall ==
    [op |-> "idle", pc |-> "idle", owner |-> "none", outcome |-> "none",
     running |-> FALSE, value |-> <<>>, reqs |-> <<>>, waits |-> <<>>,
     reads |-> 0, chunks |-> <<>>, rx |-> <<>>]

Req(method, path) == [method |-> method, endpoint |-> baseUrl, path |-> path]

\* history: what the network has answered to this invocation so far
Recv(c, kind, what) == [c EXCEPT !.rx = Append(@, [kind |-> kind, what |-> what])]

Gets(c) == SelectSeq(c.reqs, LAMBDA r : r.method = "GET")
Posts(c) == SelectSeq(c.reqs, LAMBDA r : r.method = "POST")

\* isOllamaRunning up to its await: the GET is on the wire
BeginProbe(op, owner) ==
    [IdleCall EXCEPT !.op = op, !.pc = "tags", !.owner = owner,
                     !.reqs = <<Req("GET", "/api/tags")>>]

Returned(c, v) == [c EXCEPT !.pc = "done", !.outcome = "return", !.value = v]
Threw(c, v) == [c EXCEPT !.pc = "done", !.outcome = "throw", !.value = v]

OnChunk(c, text, done) == [c EXCEPT !.chunks = Append(@, [text |-> text, done |-> done])]

\* NotRunningGuard without its check: the POST goes out whatever the probe said
NotRunningGuardSkipped(c, running) ==
    [c EXCEPT !.pc = "post", !.reqs = Append(@, Req("POST", "/api/generate"))]

\* the precondition shared by generateCompletion and streamCompletion
NotRunningGuard(c, running) ==
    IF ~running
    THEN Threw(c, <<"Ollama is not running">>)
    ELSE [c EXCEPT !.pc = "post", !.reqs = Append(@, Req("POST", "/api/generate"))]

\* AfterProbe without the catch of isOllamaRunning: a rejected fetch propagates
AfterProbeRethrows(c, outcome) ==
    IF outcome = "neterr"
    THEN Threw(c, <<"TypeError: Failed to fetch">>)
    ELSE LET running == (outcome = "200")
             d == [c EXCEPT !.running = running]
         IN  IF c.op = "probe"
             THEN Returned(d, <<>>)
             ELSE NotRunningGuard(d, running)

\* isOllamaRunning after its await, and the caller's code up to its next await
AfterProbe(c, outcome) ==
    LET running == (outcome = "200")
        d == [c EXCEPT !.running = running]
    IN  IF c.op = "probe"
        THEN Returned(d, <<>>)
        ELSE NotRunningGuard(d, running)

\* StreamCatch that reports the error as one more non-terminal chunk
StreamCatchNotTerminal(c, error) == Returned(OnChunk(c, <<"Error: ", error>>, FALSE), <<>>)

\* the catch block of streamCompletion
StreamCatch(c, error) == Returned(OnChunk(c, <<"Error: ", error>>, TRUE), <<>>)

\* generateCompletion / streamCompletion after the POST's await
AfterPost(c, outcome) ==
    IF c.op = "generate"
    THEN IF outcome = "neterr"
         THEN Returned(c, <<"Error generating code: ", "TypeError: Failed to fetch">>)
         ELSE [c EXCEPT !.pc = "json"]
    ELSE CASE outcome = "neterr" -> StreamCatch(c, "TypeError: Failed to fetch")
           [] outcome = "nobody" -> StreamCatch(c, "Error: Response body is null")
           [] OTHER -> [c EXCEPT !.pc = "read", !.reads = 1]

\* generateCompletion after response.json()
AfterJson(c, parsed) ==
    IF parsed.ok
    THEN Returned(c, <<parsed.response>>)
    ELSE Returned(c, <<"Error generating code: ", "SyntaxError">>)

\* ParseLines without the break after a done object
RECURSIVE ParseLinesNoBreak(_, _, _, _)
ParseLinesNoBreak(c, chunk, lines, i) ==
    IF i > Len(lines)
    THEN [c |-> c, done |-> (\E k \in 1..Len(c.chunks) : c.chunks[k].done)]
    ELSE LET data == JSONparse(lines[i])
         IN  IF ~data.ok
             THEN [c |-> OnChunk(c, chunk, FALSE), done |-> FALSE]
             ELSE ParseLinesNoBreak(OnChunk(c, <<data.response>>, data.done), chunk, lines, i + 1)

\* ParseLines whose catch swallows the chunk
RECURSIVE ParseLinesDropRaw(_, _, _, _)
ParseLinesDropRaw(c, chunk, lines, i) ==
    IF i > Len(lines)
    THEN [c |-> c, done |-> FALSE]
    ELSE LET data == JSONparse(lines[i])
         IN  IF ~data.ok
             THEN [c |-> c, done |-> FALSE]
             ELSE IF data.done
                  THEN [c |-> OnChunk(c, <<data.response>>, TRUE), done |-> TRUE]
                  ELSE ParseLinesDropRaw(OnChunk(c, <<data.response>>, FALSE), chunk, lines, i + 1)

\* the for loop over the lines of one chunk, inside its try
RECURSIVE ParseLines(_, _, _, _)
ParseLines(c, chunk, lines, i) ==
    IF i > Len(lines)
    THEN [c |-> c, done |-> FALSE]
    ELSE LET data == JSONparse(lines[i])
         IN  IF ~data.ok
             THEN [c |-> OnChunk(c, chunk, FALSE), done |-> FALSE]
             ELSE IF data.done
                  THEN [c |-> OnChunk(c, <<data.response>>, TRUE), done |-> TRUE]
                  ELSE ParseLines(OnChunk(c, <<data.response>>, FALSE), chunk, lines, i + 1)

\* chunk.split('\n').filter(line => line.trim())
SplitLines(chunk) == SelectSeq(chunk, LAMBDA line : line # "")

\* AfterRead that leaves the loop at the end of the body without a call
AfterReadSilentEof(c, ev) ==
    CASE ev.kind = "error" -> StreamCatch(c, "TypeError: network error")
      [] ev.kind = "eof" -> Returned(c, <<>>)
      [] OTHER ->
           LET r == ParseLines(c, ev.chunk, SplitLines(ev.chunk), 1)
           IN  IF r.done
               THEN Returned(r.c, <<>>)
               ELSE [r.c EXCEPT !.reads = @ + 1]

\* one turn of the while loop of streamCompletion, after reader.read()'s await
AfterRead(c, ev) ==
    CASE ev.kind = "error" -> StreamCatch(c, "TypeError: network error")
      [] ev.kind = "eof" -> Returned(OnChunk(c, <<>>, TRUE), <<>>)
      [] OTHER ->
           LET r == ParseLines(c, ev.chunk, SplitLines(ev.chunk), 1)
           IN  IF r.done
               THEN Returned(r.c, <<>>)
               ELSE [r.c EXCEPT !.reads = @ + 1]

\* history: the number of lines the body of this invocation has delivered
RECURSIVE LinesRead(_)
LinesRead(rx) ==
    IF rx = <<>> THEN 0
    ELSE (IF Head(rx).kind = "chunk" THEN Len(Head(rx).what) ELSE 0) + LinesRead(Tail(rx))

ReadEvents(c) ==
    {[kind |-> "eof", chunk |-> <<>>], [kind |-> "error", chunk |-> <<>>]}
    \cup {[kind |-> "chunk", chunk |-> ch] :
            ch \in {x \in Chunks : Len(x) <= MaxLines - LinesRead(c.rx)}}

-----------------------------------------------------------------------------
(* The service driven directly through its public methods *)

AllIdle == \A i \in CallIds : call[i].op = "idle"

Streak(outcome) == IF outcome = "200" THEN 0 ELSE failStreak + 1

\* the service as constructed
ServiceInit ==
    /\ baseUrl = DefaultEndpoint
    /\ isRunning = FALSE
    /\ call = [i \in CallIds |-> IdleCall]
    /\ failStreak = 0
    /\ epChanges = 0
    /\ tests = <<>>

NoInput ==
    /\ input = <<>>
    /\ routed = <<>>

NoText ==
    /\ aiResponse = <<>>
    /\ commands = <<>>

NoBody ==
    /\ toRead = <<>>
    /\ whole = <<>>

\* the component before anything is submitted
EmptyUI ==
    /\ os = "linux"
    /\ output = <<>>
    /\ isProcessing = FALSE
    /\ ollamaConnected = FALSE
    /\ modelLoaded = FALSE
    /\ showInstallInstructions = FALSE
    /\ activeTab = "commands"
    /\ timers = {}
    /\ sends = {}
    /\ invs = <<>>
    /\ fetches = <<>>
    /\ fileOps = <<>>
    /\ fileStructure = FALSE
    /\ checks = <<>>

Init ==
    /\ ServiceInit
    /\ NoInput
    /\ NoText
    /\ NoBody
    /\ EmptyUI

\* a caller invokes isOllamaRunning, generateCompletion or streamCompletion
Invoke(op) ==
    /\ AllIdle
    /\ failStreak < MaxStreak
    /\ call' = [call EXCEPT ![1] = BeginProbe(op, "caller")]
    /\ UNCHANGED <<baseUrl, isRunning, failStreak, epChanges, tests, routerVars, extractVars, splitVars, uiVars>>

CallProbe == Invoke("probe")
CallGenerate == Invoke("generate")
CallStream == Invoke("stream")

\* setEndpoint
SetEndpoint ==
    /\ epChanges < MaxEpChanges
    /\ \E e \in Endpoints :
         /\ baseUrl' = e
         /\ failStreak' = IF e = baseUrl THEN failStreak ELSE 0
    /\ epChanges' = epChanges + 1
    /\ UNCHANGED <<isRunning, call, tests, routerVars, extractVars, splitVars, uiVars>>

\* ollamaService.resetConnection(): the class defines no such method, so the
\* call raises a TypeError before anything is awaited
resetConnection ==
    [outcome |-> "throw",
     value |-> <<"TypeError: ollamaService.resetConnection is not a function">>]

\* ModelSettings.testConnection: setEndpoint, then resetConnection inside its
\* try; what it throws goes to the catch (an error toast) and the finally
TestConnection ==
    /\ epChanges < MaxEpChanges
    /\ \E e \in Endpoints :
         /\ baseUrl' = e
         /\ failStreak' = IF e = baseUrl THEN failStreak ELSE 0
         /\ tests' = Append(tests, [endpoint |-> e, reset |-> resetConnection])
    /\ epChanges' = epChanges + 1
    /\ UNCHANGED <<isRunning, call, routerVars, extractVars, splitVars, uiVars>>

\* the GET /api/tags of isOllamaRunning settles
TagsRespond ==
    \E i \in CallIds, outcome \in TagsOutcomes :
      /\ call[i].pc = "tags"
      /\ call[i].owner = "caller"
      /\ isRunning' = (outcome = "200")
      /\ call' = [call EXCEPT ![i] = AfterProbe(Recv(call[i], "tags", <<outcome>>), outcome)]
      /\ failStreak' = Streak(outcome)
      /\ UNCHANGED <<baseUrl, epChanges, tests, routerVars, extractVars, splitVars, uiVars>>

\* the POST /api/generate settles
PostRespond ==
    \E i \in CallIds, outcome \in PostOutcomes :
      /\ call[i].pc = "post"
      /\ call[i].owner = "caller"
      /\ call' = [call EXCEPT ![i] = AfterPost(Recv(call[i], "post", <<outcome>>), outcome)]
      /\ UNCHANGED <<baseUrl, isRunning, failStreak, epChanges, tests, routerVars, extractVars, splitVars, uiVars>>

\* response.json() settles
JsonRespond ==
    \E i \in CallIds, line \in Lines :
      /\ call[i].pc = "json"
      /\ call[i].owner = "caller"
      /\ call' = [call EXCEPT ![i] = AfterJson(Recv(call[i], "json", <<line>>), JSONparse(line))]
      /\ UNCHANGED <<baseUrl, isRunning, failStreak, epChanges, tests, routerVars, extractVars, splitVars, uiVars>>

\* reader.read() settles
ReadRespond ==
    \E i \in CallIds :
      /\ call[i].pc = "read"
      /\ call[i].owner = "caller"
      /\ \E ev \in ReadEvents(call[i]) :
           call' = [call EXCEPT ![i] = AfterRead(Recv(call[i], ev.kind, ev.chunk), ev)]
      /\ UNCHANGED <<baseUrl, isRunning, failStreak, epChanges, tests, routerVars, extractVars, splitVars, uiVars>>

\* the caller has its result; the invocation is over
Settle ==
    \E i \in CallIds :
      /\ call[i].pc = "done"
      /\ call[i].owner = "caller"
      /\ call' = [call EXCEPT ![i] = IdleCall]
      /\ UNCHANGED <<baseUrl, isRunning, failStreak, epChanges, tests, routerVars, extractVars, splitVars, uiVars>>

Next ==
    \/ CallProbe
    \/ CallGenerate
    \/ CallStream
    \/ SetEndpoint
    \/ TestConnection
    \/ TagsRespond
    \/ PostRespond
    \/ JsonRespond
    \/ ReadRespond
    \/ Settle

Spec == Init /\ [][Next]_vars

-----------------------------------------------------------------------------
(* Strings the code inspects character by character: sequences of         *)
(* one-character strings                                                   *)

StartsWith(s, p) == Len(s) >= Len(p) /\ SubSeq(s, 1, Len(p)) = p
Includes(s, p) == \E i \in 1..(Len(s) - Len(p) + 1) : SubSeq(s, i, i + Len(p) - 1) = p

UpperLetters ==
    <<"A", "B", "C", "D", "E", "F", "G", "H", "I", "J", "K", "L", "M",
      "N", "O", "P", "Q", "R", "S", "T", "U", "V", "W", "X", "Y", "Z">>
LowerLetters ==
    <<"a", "b", "c", "d", "e", "f", "g", "h", "i", "j", "k", "l", "m",
      "n", "o", "p", "q", "r", "s", "t", "u", "v", "w", "x", "y", "z">>
LowerChar(ch) ==
    IF \E k \in 1..Len(UpperLetters) : UpperLetters[k] = ch
    THEN LowerLetters[CHOOSE k \in 1..Len(UpperLetters) : UpperLetters[k] = ch]
    ELSE ch
\* what the i flag of a regular expression compares
Lower(s) == [k \in 1..Len(s) |-> LowerChar(s[k])]

Min(S) == CHOOSE x \in S : \A y \in S : x <= y

RECURSIVE Join(_)
Join(words) ==
    IF Len(words) = 1 THEN words[1]
    ELSE words[1] \o <<" ">> \o Join(Tail(words))

Ollama == <<"o", "l", "l", "a", "m", "a">>
Run == <<"r", "u", "n">>
Pull == <<"p", "u", "l", "l">>
Install == <<"I", "n", "s", "t", "a", "l", "l">>
Ssh == <<"s", "s", "h">>
SshUpper == <<"S", "S", "H">>
Warpify == <<"w", "a", "r", "p", "i", "f", "y">>
Analyze == <<"a", "n", "a", "l", "y", "z", "e">>
Ls == <<"l", "s">>
Mkdir == <<"m", "k", "d", "i", "r">>
Hi == <<"h", "i">>
List == <<"l", "i", "s", "t">>

Vocabulary == {Ollama, Run, Pull, Install, Ssh, SshUpper, Warpify, Analyze, Ls, Mkdir, Hi, List}

\* the strings a user can submit: words separated by single spaces
Commands == {Join(ws) : ws \in SeqsUpTo(Vocabulary, MaxWords) \ {<<>>}}

AllowList ==
    {<<"c", "d">>, Ls, <<"d", "i", "r">>, Mkdir, <<"r", "m">>, <<"g", "i", "t">>,
     <<"n", "p", "m">>, <<"y", "a", "r", "n">>, <<"p", "n", "p", "m">>}

\* command.startsWith("ollama")
IsOllama(cmd) == StartsWith(cmd, Ollama)
\* command.includes("run"), command.includes("pull")
HasRun(cmd) == Includes(cmd, Run)
HasPull(cmd) == Includes(cmd, Pull)
\* /install ollama/i
IsInstall(cmd) == Includes(Lower(cmd), Lower(Install) \o <<" ">> \o Ollama)
\* /^ssh/i
IsSsh(cmd) == StartsWith(Lower(cmd), Ssh)
\* /^warpify|analyze/i
IsWarpify(cmd) == StartsWith(Lower(cmd), Warpify) \/ Includes(Lower(cmd), Analyze)
\* /^(cd|ls|dir|mkdir|rm|git|npm|yarn|pnpm)/i
IsSystem(cmd) == \E p \in AllowList : StartsWith(Lower(cmd), p)

\* Route with the pull test ahead of the run test
RoutePullFirst(cmd) ==
    IF IsOllama(cmd)
    THEN IF HasPull(cmd) THEN "handleOllamaPullCommand"
         ELSE IF HasRun(cmd) THEN "handleOllamaRunCommand"
         ELSE "executeCommand"
    ELSE IF IsInstall(cmd) THEN "showInstallInstructions"
    ELSE IF IsSsh(cmd) THEN "handleSSHCommand"
    ELSE IF IsWarpify(cmd) THEN "showFileExplorer"
    ELSE IF ~IsSystem(cmd) THEN "handleAICommand"
    ELSE "executeCommand"

\* Route with the negation of the allow-list test lost
RouteAllowListInverted(cmd) ==
    IF IsOllama(cmd)
    THEN IF HasRun(cmd) THEN "handleOllamaRunCommand"
         ELSE IF HasPull(cmd) THEN "handleOllamaPullCommand"
         ELSE "executeCommand"
    ELSE IF IsInstall(cmd) THEN "showInstallInstructions"
    ELSE IF IsSsh(cmd) THEN "handleSSHCommand"
    ELSE IF IsWarpify(cmd) THEN "showFileExplorer"
    ELSE IF IsSystem(cmd) THEN "handleAICommand"
    ELSE "executeCommand"

\* the if / else-if chain of handleSendCommand
Route(cmd) ==
    IF IsOllama(cmd)
    THEN IF HasRun(cmd) THEN "handleOllamaRunCommand"
         ELSE IF HasPull(cmd) THEN "handleOllamaPullCommand"
         ELSE "executeCommand"
    ELSE IF IsInstall(cmd) THEN "showInstallInstructions"
    ELSE IF IsSsh(cmd) THEN "handleSSHCommand"
    ELSE IF IsWarpify(cmd) THEN "showFileExplorer"
    ELSE IF ~IsSystem(cmd) THEN "handleAICommand"
    ELSE "executeCommand"

-----------------------------------------------------------------------------
(* The router alone, over every input string of the bounded vocabulary *)

RouterInit ==
    /\ ServiceInit
    /\ EmptyUI
    /\ input \in Commands
    /\ routed = <<>>
    /\ NoText
    /\ NoBody

\* handleSendCommand picks the handler of its input
RouteInput ==
    /\ routed = <<>>
    /\ routed' = <<Route(input)>>
    /\ UNCHANGED <<svcVars, input, extractVars, splitVars, uiVars>>

RouterNext == RouteInput

SpecRouter == RouterInit /\ [][RouterNext]_vars

-----------------------------------------------------------------------------
(* CommandService *)

Backslash == "\\"

ReplacePrefix(s, p, r) ==
    IF StartsWith(s, p) THEN r \o SubSeq(s, Len(p) + 1, Len(s)) ELSE s

\* formatCommand of platformUtils
formatCommand(command, system) ==
    IF system = "windows"
    THEN LET a == [k \in 1..Len(command) |->
                     IF command[k] = "/" THEN Backslash ELSE command[k]]
             b == ReplacePrefix(a, <<"r", "m", " ", "-", "r", "f">>,
                                <<"r", "m", "d", "i", "r", " ", "/", "s", " ", "/", "q">>)
             c == ReplacePrefix(b, <<"r", "m">>, <<"d", "e", "l">>)
             d == ReplacePrefix(c, <<"m", "k", "d", "i", "r", " ", "-", "p">>, Mkdir)
             e == ReplacePrefix(d, <<"c", "p">>, <<"c", "o", "p", "y">>)
         IN  ReplacePrefix(e, <<"m", "v">>, <<"m", "o", "v", "e">>)
    ELSE command

SimulatedPrefixes ==
    {Ls, <<"d", "i", "r">>, <<"c", "d">>, <<"e", "c", "h", "o">>,
     <<"c", "a", "t">>, <<"t", "y", "p", "e">>}

\* what the promise of executeCommand resolves to
executeCommandResult(command, system) ==
    LET lower == Lower(command)
    IN  IF \E q \in SimulatedPrefixes : StartsWith(lower, q)
        THEN [success |-> TRUE,
              output |-> <<"Simulated output for: ">> \o formatCommand(command, system)
                           \o <<"\nSuccess!">>]
        ELSE IF StartsWith(lower, Ollama \o <<" ">> \o Run)
        THEN [success |-> TRUE,
              output |-> <<"Running Ollama model...\nModel loaded successfully.\nReady for queries.">>]
        ELSE IF StartsWith(lower, Ollama \o <<" ">> \o Pull)
        THEN [success |-> TRUE,
              output |-> <<"Pulling model...\nDownload 100% complete\nModel downloaded and ready to use">>]
        ELSE IF \/ StartsWith(lower, <<"n", "p", "m">>)
                \/ Includes(lower, <<"y", "a", "r", "n">>)
                \/ Includes(lower, <<"p", "n", "p", "m">>)
        THEN [success |-> TRUE, output |-> <<"Installing packages...\nDone in 3.45s">>]
        ELSE IF StartsWith(lower, <<"g", "i", "t">>)
        THEN [success |-> TRUE, output |-> <<"Simulated git operation completed successfully">>]
        ELSE [success |-> FALSE,
              output |-> <<"Command not recognized or cannot be executed in browser environment.\nIn a real application, this would be sent to a backend service.">>]

\* a text is the sequence of its characters; the backquote is written ' here,
\* a TLA+ string cannot hold a backquote
Backquote == "'"
Fence == <<Backquote, Backquote, Backquote>>
Newline == "\n"

\* \s of the regular expressions
IsSpace(ch) == ch \in {" ", "\n", "\t"}

\* String.indexOf from a position; 0 when there is none
IndexFrom(s, pat, from) ==
    LET hits == {k \in from..(Len(s) - Len(pat) + 1) : SubSeq(s, k, k + Len(pat) - 1) = pat}
    IN  IF hits = {} THEN 0 ELSE Min(hits)

\* (?:bash|sh|cmd|powershell)? at position p: the first alternative that matches
FenceTags ==
    << <<"b", "a", "s", "h">>, <<"s", "h">>, <<"c", "m", "d">>,
       <<"p", "o", "w", "e", "r", "s", "h", "e", "l", "l">> >>
TagAt(s, p) ==
    LET fits == {t \in 1..Len(FenceTags) :
                   /\ p + Len(FenceTags[t]) - 1 <= Len(s)
                   /\ SubSeq(s, p, p + Len(FenceTags[t]) - 1) = FenceTags[t]}
    IN  IF fits = {} THEN <<>> ELSE FenceTags[Min(fits)]

\* the position after a greedy \s* that starts at p
SkipSpaces(s, p) ==
    LET stops == {k \in p..Len(s) : ~IsSpace(s[k])}
    IN  IF stops = {} THEN Len(s) + 1 ELSE Min(stops)

\* String.split('\n')
RECURSIVE SplitNewlines(_)
SplitNewlines(s) ==
    LET at == IndexFrom(s, <<Newline>>, 1)
    IN  IF at = 0 THEN <<s>>
        ELSE <<SubSeq(s, 1, at - 1)>> \o SplitNewlines(SubSeq(s, at + 1, Len(s)))

\* String.trim()
RECURSIVE TrimStart(_)
TrimStart(s) ==
    IF s = <<>> \/ ~IsSpace(s[1]) THEN s ELSE TrimStart(Tail(s))
RECURSIVE TrimEnd(_)
TrimEnd(s) ==
    IF s = <<>> \/ ~IsSpace(s[Len(s)]) THEN s ELSE TrimEnd(SubSeq(s, 1, Len(s) - 1))
Trim(s) == TrimEnd(TrimStart(s))

IsComment(line) == StartsWith(line, <<"#">>) \/ StartsWith(line, <<"/", "/">>)

\* the lines one code block contributes
KeptLines(codeBlock) ==
    LET lines == SplitNewlines(codeBlock)
    IN  SelectSeq([k \in 1..Len(lines) |-> Trim(lines[k])],
                  LAMBDA line : line # <<>> /\ ~IsComment(line))

\* the first loop of parseCommandsFromAI: the matches of codeBlockRegex at or
\* after position from, each body running lazily to the next fence
CodeBlockLines(s, from) ==
    LET loop[lastIndex \in 1..(Len(s) + 1)] ==
            LET open == IndexFrom(s, Fence, lastIndex)
                body == SkipSpaces(s, open + 3 + Len(TagAt(s, open + 3)))
                close == IndexFrom(s, Fence, body)
            IN  IF open = 0 \/ close = 0 THEN <<>>
                ELSE KeptLines(SubSeq(s, body, close - 1)) \o loop[close + 3]
    IN  loop[from]

\* commandPromptRegex tried at position p: the marker, a greedy \s+ that gives
\* back what (.+) needs, and the rest of the line as the group
PromptMatch(s, p) ==
    LET after == SkipSpaces(s, p + 1)
        given == {k \in (p + 2)..(after - 1) : s[k] # Newline}
        start == IF after <= Len(s) THEN after
                 ELSE IF given = {} THEN 0
                 ELSE CHOOSE k \in given : \A j \in given : j <= k
        eol == IndexFrom(s, <<Newline>>, start)
        end == IF eol = 0 THEN Len(s) ELSE eol - 1
    IN  IF s[p] \in {"$", ">"} /\ after > p + 1 /\ start # 0
        THEN [ok |-> TRUE, group |-> SubSeq(s, start, end), next |-> end + 1]
        ELSE [ok |-> FALSE, group |-> <<>>, next |-> p + 1]

\* the second loop of parseCommandsFromAI, from position p on
PromptLines(s, p) ==
    LET loop[lastIndex \in 1..(Len(s) + 1)] ==
            IF lastIndex > Len(s) THEN <<>>
            ELSE LET m == PromptMatch(s, lastIndex)
                 IN  (IF m.ok THEN <<Trim(m.group)>> ELSE <<>>) \o loop[m.next]
    IN  loop[p]

\* parseCommandsFromAI with its two loops in the other order
parseCommandsPromptsFirst(response) ==
    PromptLines(response, 1) \o CodeBlockLines(response, 1)

\* both loops run over the one string the call was given
parseCommandsFromAI(response) ==
    LET commandsOf[text \in {response}] ==
            CodeBlockLines(text, 1) \o PromptLines(text, 1)
    IN  commandsOf[response]

\* the lines the texts handed to parseCommandsFromAI are made of
FenceLine == Fence
FenceBash == Fence \o <<"b", "a", "s", "h">>
FencePython == Fence \o <<"p", "y", "t", "h", "o", "n">>
PaddedLs == <<" ", "l", "s", " ">>
HashComment == <<"#", " ", "c">>
SlashComment == <<"/", "/", " ", "c">>
BlankLine == <<>>
DollarPwd == <<"$", " ", "p", "w", "d">>
AngleDir == <<">", " ", "d", "i", "r">>
MidLineDollar == <<"a", " ", "$", " ", "b">>
TextLines ==
    {FenceLine, FenceBash, FencePython, Ls, PaddedLs, HashComment, SlashComment,
     BlankLine, DollarPwd, AngleDir, MidLineDollar}

\* a block with a comment, a blank line and ls, then a prompt line
ExampleText == <<FenceLine, HashComment, BlankLine, Ls, FenceLine, DollarPwd>>
PromptBeforeBlock == <<DollarPwd, FenceLine, Ls, FenceLine>>

Texts == SeqsUpTo(TextLines, MaxTextLines) \cup {ExampleText, PromptBeforeBlock}

\* the string whose lines these are
RECURSIVE TextOf(_)
TextOf(lines) ==
    IF lines = <<>> THEN <<>>
    ELSE IF Len(lines) = 1 THEN lines[1]
    ELSE lines[1] \o <<Newline>> \o TextOf(Tail(lines))

ExtractInit ==
    /\ ServiceInit
    /\ NoInput
    /\ EmptyUI
    /\ aiResponse \in Texts
    /\ commands = <<>>
    /\ NoBody

\* a caller hands the text to parseCommandsFromAI
Extract ==
    /\ commands = <<>>
    /\ commands' = <<parseCommandsFromAI(TextOf(aiResponse))>>
    /\ UNCHANGED <<svcVars, routerVars, aiResponse, splitVars, uiVars>>

ExtractNext == Extract

SpecExtract == ExtractInit /\ [][ExtractNext]_vars

-----------------------------------------------------------------------------
(* CodeWizard *)

Digits == <<"0", "1", "2", "3", "4", "5", "6", "7", "8", "9">>
\* a number inside a template literal
RECURSIVE Decimal(_)
Decimal(n) == IF n < 10 THEN Digits[n + 1] ELSE Decimal(n \div 10) \o Digits[(n % 10) + 1]

RECURSIVE Split(_)
Split(s) ==
    LET spaces == {k \in 1..Len(s) : s[k] = " "}
    IN  IF spaces = {} THEN <<s>>
        ELSE <<SubSeq(s, 1, Min(spaces) - 1)>> \o Split(SubSeq(s, Min(spaces) + 1, Len(s)))

DefaultModel == <<"qwen2.5-coder:14b">>

\* group 1 of /ollama <verb> (\S+)/, or the default model
ModelAfter(command, verb) ==
    LET pat == Ollama \o <<" ">> \o verb \o <<" ">>
        at == {k \in 1..(Len(command) - Len(pat)) :
                 /\ SubSeq(command, k, k + Len(pat) - 1) = pat
                 /\ command[k + Len(pat)] # " "}
    IN  IF at = {} THEN DefaultModel
        ELSE Split(SubSeq(command, Min(at) + Len(pat), Len(command)))[1]

IsOption(w) ==
    /\ Len(w) >= 2
    /\ w[1] = "-"
    /\ \A k \in 2..Len(w) : w[k] \notin {"-", "@", ".", ":", "/"}

RECURSIVE SkipOptions(_)
SkipOptions(ws) ==
    IF Len(ws) >= 2 /\ IsOption(ws[1]) THEN SkipOptions(Tail(ws)) ELSE ws

\* group 2 of /ssh\s+(?:-\w+\s+)*([^@\s]+@)?([^@\s]+)/i, or "remote-host"
SshHost(command) ==
    LET ws == Split(command)
        at == {k \in 1..(Len(ws) - 1) :
                 /\ Len(ws[k]) >= 3
                 /\ Lower(SubSeq(ws[k], Len(ws[k]) - 2, Len(ws[k]))) = Ssh
                 /\ ws[k + 1] # <<>>}
    IN  IF at = {} THEN <<"remote-host">>
        ELSE LET target == SkipOptions(SubSeq(ws, Min(at) + 1, Len(ws)))[1]
                 ats == {k \in 1..Len(target) : target[k] = "@"}
             IN  IF ats = {} THEN target
                 ELSE IF Min(ats) > 1 /\ Min(ats) < Len(target)
                           /\ target[Min(ats) + 1] # "@"
                 THEN LET rest == SubSeq(target, Min(ats) + 1, Len(target))
                          more == {k \in 1..Len(rest) : rest[k] = "@"}
                      IN  IF more = {} THEN rest ELSE SubSeq(rest, 1, Min(more) - 1)
                 ELSE <<"remote-host">>

Entry(type, content, inv) == [type |-> type, content |-> content, inv |-> inv]

\* the strings submitted to the user interface
UIInputs ==
    { Join(<<Ollama, Run>>), Join(<<Ollama, Pull, Hi>>), Join(<<Ollama, List>>),
      Join(<<Install, Ollama>>), Join(<<SshUpper, Hi>>), Join(<<Hi, Analyze>>),
      Hi, Ls \o <<" ", "/">>, Join(<<Mkdir, Hi>>) }

UIChunks == {ch \in Chunks : Len(ch) = 1} \cup {<<ObjA, Garbage>>}

UIReadEvents(c) ==
    {[kind |-> "eof", chunk |-> <<>>], [kind |-> "error", chunk |-> <<>>]}
    \cup (IF c.reads <= MaxUIReads
          THEN {[kind |-> "chunk", chunk |-> ch] : ch \in UIChunks}
          ELSE {})

CannedResponses ==
    { <<"'''python", "def hello_world():", "    print('Hello, world!')", "'''">>,
      <<"I'd recommend creating a function to handle this task:">>,
      <<"'''javascript", "async function processData(input) {", "}", "'''">>,
      <<"Here's how you can solve this problem with React:">>,
      <<"'''jsx", "import React, { useState } from 'react';", "'''">> }

NotRunningError == <<"Ollama is not running. Please start Ollama first.">>
NotLoadedError ==
    <<"Model is not loaded. Please run 'ollama run qwen2.5-coder:14b' first.">>

\* handleAICommand without its two early returns
AIPreconditionSkipped(connected, loaded) == "stream"

\* the two early returns of handleAICommand
AIPrecondition(connected, loaded) ==
    IF ~connected THEN "notRunning"
    ELSE IF ~loaded THEN "notLoaded"
    ELSE "stream"

RECURSIVE Flatten(_)
Flatten(texts) == IF texts = <<>> THEN <<>> ELSE Head(texts) \o Flatten(Tail(texts))

\* fullResponse when the k-th onChunk call of c is made
FullResponse(c, k) == Flatten([j \in 1..k |-> c.chunks[j].text])

\* the characters of the strings that reach fullResponse
Chars(piece) ==
    CASE piece = ObjA ->
             <<"{", "r", "e", "s", "p", "o", "n", "s", "e", ":", "$", " ",
               "l", "s", ",", "d", "o", "n", "e", ":", "f", "a", "l", "s",
               "e", "}">>
      [] piece = ObjB ->
             <<"{", "r", "e", "s", "p", "o", "n", "s", "e", ":", "o", "k",
               ",", "d", "o", "n", "e", ":", "t", "r", "u", "e", "}">>
      [] piece = Garbage ->
             <<"{", "r", "e", "s", "p", "o", "n", "s", "e", ":", "$", " ",
               "l", "s", ",", "d", "o">>
      [] piece = "ne:false}" ->
             <<"n", "e", ":", "f", "a", "l", "s", "e", "}">>
      [] piece = RespA ->
             <<"$", " ", "l", "s">>
      [] piece = RespB ->
             <<"o", "k">>
      [] piece = "Error: " ->
             <<"E", "r", "r", "o", "r", ":", " ">>
      [] piece = "TypeError: Failed to fetch" ->
             <<"T", "y", "p", "e", "E", "r", "r", "o", "r", ":", " ", "F",
               "a", "i", "l", "e", "d", " ", "t", "o", " ", "f", "e", "t",
               "c", "h">>
      [] piece = "Error: Response body is null" ->
             <<"E", "r", "r", "o", "r", ":", " ", "R", "e", "s", "p", "o",
               "n", "s", "e", " ", "b", "o", "d", "y", " ", "i", "s", " ",
               "n", "u", "l", "l">>
      [] piece = "TypeError: network error" ->
             <<"T", "y", "p", "e", "E", "r", "r", "o", "r", ":", " ", "n",
               "e", "t", "w", "o", "r", "k", " ", "e", "r", "r", "o", "r">>
      [] OTHER -> <<>>

RECURSIVE JoinChars(_, _)
JoinChars(pieces, sep) ==
    IF pieces = <<>> THEN <<>>
    ELSE IF Len(pieces) = 1 THEN Chars(pieces[1])
    ELSE Chars(pieces[1]) \o sep \o JoinChars(Tail(pieces), sep)

\* the string one onChunk call hands over: a raw chunk has its lines joined by
\* \n again, a decoded response or an error text is one string
ChunkChars(text) ==
    IF text # <<>> /\ \A j \in 1..Len(text) : text[j] \in Lines
    THEN JoinChars(text, <<Newline>>)
    ELSE JoinChars(text, <<>>)

\* fullResponse, as characters, when the k-th onChunk call of c is made
FullResponseChars(c, k) == Flatten([j \in 1..k |-> ChunkChars(c.chunks[j].text)])

\* what the onChunk callback of handleAICommand appends for the k-th call of c
SinkEntries(c, k, inv) ==
    IF ~c.chunks[k].done THEN <<>>
    ELSE LET full == FullResponse(c, k)
             n == Len(parseCommandsFromAI(FullResponseChars(c, k)))
         IN  <<Entry("response", full, inv)>>
             \o (IF n > 0
                 THEN <<Entry("info",
                              <<"Found ", Decimal(n), " executable command",
                                IF n > 1 THEN "s" ELSE "",
                                ". Use the Execute button to run them.">>, inv)>>
                 ELSE <<>>)

\* the entries the callback appends for the calls made after the first "from"
RECURSIVE SinkFrom(_, _, _)
SinkFrom(c, from, inv) ==
    IF from >= Len(c.chunks) THEN <<>>
    ELSE SinkEntries(c, from + 1, inv) \o SinkFrom(c, from + 1, inv)

\* the interval callback's entries with the success entry ahead of the readout
PullEntriesSuccessFirst(t, progress) ==
    (IF progress >= 100
     THEN <<Entry("response", <<"Model ">> \o t.arg \o <<" pulled successfully.">>, t.inv)>>
     ELSE <<>>)
    \o (IF progress <= 100
        THEN <<Entry("response", <<"Download progress: ", Decimal(progress), "%">>, t.inv)>>
        ELSE <<>>)

PullEntries(t, progress) ==
    (IF progress <= 100
     THEN <<Entry("response", <<"Download progress: ", Decimal(progress), "%">>, t.inv)>>
     ELSE <<>>)
    \o (IF progress >= 100
        THEN <<Entry("response", <<"Model ">> \o t.arg \o <<" pulled successfully.">>, t.inv)>>
        ELSE <<>>)

\* the interval callback of handleOllamaPullCommand calling setModelLoaded(true)
\* at every tick
PullStepLoadsEarly(t) ==
    LET progress == t.progress + 20
    IN  [entries |-> PullEntries(t, progress),
         loaded |-> TRUE,
         timer |-> IF progress >= 100 THEN {} ELSE {[t EXCEPT !.progress = progress]}]

\* the interval callback of handleOllamaPullCommand without its clearInterval
PullStepNoClear(t) ==
    LET progress == t.progress + 20
    IN  [entries |-> PullEntries(t, progress),
         loaded |-> progress >= 100,
         timer |-> {[t EXCEPT !.progress = progress]}]

\* the interval callback of handleOllamaPullCommand
PullStep(t) ==
    LET progress == t.progress + 20
    IN  [entries |-> PullEntries(t, progress),
         loaded |-> progress >= 100,
         timer |-> IF progress >= 100 THEN {} ELSE {[t EXCEPT !.progress = progress]}]

Timer(inv, kind, arg) == [inv |-> inv, kind |-> kind, arg |-> arg, progress |-> 0]

FreeSlots == {i \in CallIds : call[i].op = "idle"}

\* the component as mounted: checkOllamaStatus has its first probe on the wire
UIInit ==
    /\ baseUrl = DefaultEndpoint
    /\ isRunning = FALSE
    /\ call = [i \in CallIds |-> IF i = 1 THEN BeginProbe("status", "status") ELSE IdleCall]
    /\ failStreak = 0
    /\ epChanges = 0
    /\ tests = <<>>
    /\ NoInput
    /\ NoText
    /\ os \in {"windows", "linux"}
    /\ output = <<>>
    /\ isProcessing = FALSE
    /\ ollamaConnected = FALSE
    /\ modelLoaded = FALSE
    /\ showInstallInstructions = FALSE
    /\ activeTab = "commands"
    /\ timers = {}
    /\ sends = {}
    /\ invs = <<>>
    /\ fetches = <<>>
    /\ fileOps = <<>>
    /\ fileStructure = FALSE
    /\ checks = <<[slot |-> 1, endpoint |-> DefaultEndpoint, running |-> "pending",
                   entries |-> <<>>, over |-> FALSE]>>
    /\ NoBody

\* the entries of the log that invocation inv appended
EntriesOf(inv) == SelectSeq(output, LAMBDA e : e.inv = inv)

\* history: one submitted command; failures lists the failures its handling met
Invocation(command, handler, failures) ==
    [command |-> command, handler |-> handler,
     connected |-> ollamaConnected, loaded |-> modelLoaded, failures |-> failures]

\* history: the failure, if any, that the settling of an await of streamCompletion
\* brought to the invocation now in state c
FailureOf(c) ==
    LET e == c.rx[Len(c.rx)]
    IN  CASE e.kind = "tags" /\ e.what # <<"200">> -> <<"NotRunning">>
          [] e.kind = "post" /\ e.what \in {<<"neterr">>, <<"nobody">>} -> <<"TransportError">>
          [] e.kind = "error" -> <<"TransportError">>
          [] e.kind = "chunk" /\ c.chunks # <<>>
               /\ c.chunks[Len(c.chunks)] = [text |-> e.what, done |-> FALSE] ->
               <<"MalformedChunk">>
          [] OTHER -> <<>>

\* what the handler handleSendCommand awaits does before its first await:
\* the entries it appends, the timer it arms, whether it suspends
HandlerStart(command, handler, inv) ==
    CASE handler = "handleOllamaRunCommand" ->
           LET modelName == ModelAfter(command, Run)
           IN  [entries |-> <<Entry("info", <<"Starting Ollama with model ">> \o modelName
                                              \o <<"...">>, inv)>>,
                timer |-> {Timer(inv, "run", modelName)}, suspends |-> FALSE]
      [] handler = "handleOllamaPullCommand" ->
           LET modelName == ModelAfter(command, Pull)
           IN  [entries |-> <<Entry("info", <<"Pulling model ">> \o modelName \o <<"...">>, inv)>>,
                timer |-> {Timer(inv, "pull", modelName)}, suspends |-> FALSE]
      [] handler = "executeCommand" ->
           [entries |-> <<>>, timer |-> {Timer(inv, "exec", command)}, suspends |-> TRUE]
      [] handler = "showInstallInstructions" ->
           [entries |-> <<Entry("info", <<"Showing Ollama installation instructions...">>, inv)>>,
            timer |-> {}, suspends |-> FALSE]
      [] handler = "handleSSHCommand" ->
           LET host == SshHost(command)
           IN  [entries |-> <<Entry("info", <<"Connecting to ">> \o host \o <<"...">>, inv)>>,
                timer |-> {Timer(inv, "ssh", host)}, suspends |-> FALSE]
      [] handler = "showFileExplorer" ->
           [entries |-> <<Entry("info", <<"Switched to File Explorer. Select files to analyze.">>, inv)>>,
            timer |-> {}, suspends |-> FALSE]
      [] OTHER ->
           LET pre == AIPrecondition(ollamaConnected, modelLoaded)
           IN  CASE pre = "notRunning" ->
                      [entries |-> <<Entry("error", NotRunningError, inv)>>,
                       timer |-> {}, suspends |-> FALSE]
                 [] pre = "notLoaded" ->
                      [entries |-> <<Entry("error", NotLoadedError, inv)>>,
                       timer |-> {}, suspends |-> FALSE]
                 [] OTHER ->
                      [entries |-> <<Entry("info", <<"Thinking...">>, inv)>>,
                       timer |-> {}, suspends |-> TRUE]

\* history: the failure an early return of handleAICommand stands for
EarlyFailure(handler) ==
    IF handler # "handleAICommand" THEN <<>>
    ELSE LET pre == AIPrecondition(ollamaConnected, modelLoaded)
         IN  CASE pre = "notRunning" -> <<"NotRunning">>
               [] pre = "notLoaded" -> <<"ModelUnavailable">>
               [] OTHER -> <<>>

\* handleSendCommand appending the echo of the input after the handler's entries
SendEntriesEchoLast(command, inv, handlerEntries) ==
    handlerEntries \o <<Entry("command", command, inv)>>

\* what handleSendCommand and the handler it awaits append before suspending:
\* the echo of the raw input, then the handler's entries
SendEntries(command, inv, handlerEntries) ==
    <<Entry("command", command, inv)>> \o handlerEntries

\* the test of CommandInput.handleSubmit that lets anything through
handleSubmitUnchecked(command, processing) == command # <<>>

\* the test of CommandInput.handleSubmit
handleSubmit(command, processing) == command # <<>> /\ ~processing

\* CommandInput.handleSubmit and handleSendCommand up to its first await; when
\* the handler never suspends, also the setIsProcessing(false) that follows it
SubmitOf(inputs, limit) ==
    /\ Len(invs) < limit
    /\ \E command \in inputs :
         LET inv == Len(invs) + 1
             handler == Route(command)
             start == HandlerStart(command, handler, inv)
             streams == handler = "handleAICommand" /\ start.suspends
         IN  /\ handleSubmit(command, isProcessing)
             /\ streams => FreeSlots # {}
             /\ invs' = Append(invs, Invocation(command, handler, EarlyFailure(handler)))
             /\ output' = output \o SendEntries(command, inv, start.entries)
             /\ timers' = timers \cup start.timer
             /\ isProcessing' = start.suspends
             /\ sends' = IF start.suspends THEN sends \cup {inv} ELSE sends
             /\ showInstallInstructions' =
                  (showInstallInstructions \/ handler = "showInstallInstructions")
             /\ activeTab' = IF handler = "showFileExplorer" THEN "files" ELSE activeTab
             /\ IF streams
                THEN LET c == BeginProbe("stream", "ui")
                     IN  /\ call' = [call EXCEPT ![Min(FreeSlots)] = c]
                         /\ fetches' = Append(fetches, c.reqs)
                ELSE /\ call' = call
                     /\ fetches' = Append(fetches, <<>>)
    /\ UNCHANGED <<baseUrl, isRunning, failStreak, epChanges, tests, routerVars, extractVars,
                   splitVars, fileVars, checks,
                   os, ollamaConnected, modelLoaded>>

Submit == SubmitOf(UIInputs, MaxCmds)

\* the setTimeout callback of handleSSHCommand
SshTimer ==
    \E t \in timers :
      /\ t.kind = "ssh"
      /\ timers' = timers \ {t}
      /\ output' = output \o
           <<Entry("response", <<"Connected to ">> \o t.arg \o
                     <<"\nTo run Ollama on this server, make sure to forward port 11434 in your SSH connection">>,
                   t.inv),
             Entry("info", <<"Tip: For remote Ollama, use: ssh -L 11434:localhost:11434 user@">>
                     \o t.arg, t.inv)>>
      /\ UNCHANGED <<svcVars, routerVars, extractVars,
                     splitVars, fileVars, checks, os, isProcessing, ollamaConnected, modelLoaded,
                     showInstallInstructions, activeTab, sends, invs, fetches>>

\* the setTimeout callback of handleOllamaRunCommand
RunTimer ==
    \E t \in timers :
      /\ t.kind = "run"
      /\ timers' = timers \ {t}
      /\ ollamaConnected' = TRUE
      /\ modelLoaded' = TRUE
      /\ output' = Append(output,
           Entry("response", <<"Ollama started successfully with model ">> \o t.arg \o <<".">>,
                 t.inv))
      /\ UNCHANGED <<svcVars, routerVars, extractVars,
                     splitVars, fileVars, checks, os, isProcessing,
                     showInstallInstructions, activeTab, sends, invs, fetches>>

\* one firing of the setInterval callback of handleOllamaPullCommand
PullTick ==
    \E t \in timers :
      /\ t.kind = "pull"
      /\ LET step == PullStep(t)
         IN  /\ timers' = (timers \ {t}) \cup step.timer
             /\ output' = output \o step.entries
             /\ modelLoaded' = (modelLoaded \/ step.loaded)
      /\ UNCHANGED <<svcVars, routerVars, extractVars,
                     splitVars, fileVars, checks, os, isProcessing, ollamaConnected,
                     showInstallInstructions, activeTab, sends, invs, fetches>>

\* the setTimeout callback of CommandService.executeCommand, then the rest of
\* CodeWizard's executeCommand and of handleSendCommand
ExecTimer ==
    \E t \in timers :
      /\ t.kind = "exec"
      /\ timers' = timers \ {t}
      /\ LET result == executeCommandResult(t.arg, os)
         IN  output' = Append(output,
               Entry(IF result.success THEN "response" ELSE "error", result.output, t.inv))
      /\ isProcessing' = FALSE
      /\ sends' = sends \ {t.inv}
      /\ UNCHANGED <<svcVars, routerVars, extractVars,
                     splitVars, fileVars, checks, os, ollamaConnected, modelLoaded,
                     showInstallInstructions, activeTab, invs, fetches>>

\* what the awaits of checkOllamaStatus can come back with
StatusOutcomes(pc) ==
    CASE pc = "list" -> {"response", "neterr"}
      [] pc = "listjson" -> {"listed", "absent", "syntaxerr"}
      [] OTHER -> TagsOutcomes

StatusEntry(isAvailable) ==
    Entry("info",
          <<"Ollama is running at ", baseUrl, ". Model qwen2.5-coder:14b is ",
            IF isAvailable THEN "loaded" ELSE "not loaded", ".">>, 0)

\* history: a run of checkOllamaStatus that begins now in slot i
Check(i, endpoint) ==
    [slot |-> i, endpoint |-> endpoint, running |-> "pending", entries |-> <<>>,
     over |-> FALSE]

\* history: the run of checkOllamaStatus that slot i is carrying
CheckOf(i) == CHOOSE k \in 1..Len(checks) : checks[k].slot = i /\ ~checks[k].over

\* checkOllamaStatus: one await of it (isOllamaRunning, then inside
\* isModelAvailable the probe, the fetch and the json() of listModels) settles
StatusRespond ==
    \E i \in CallIds :
      /\ call[i].owner = "status"
      /\ call[i].pc \in {"tags", "tags2", "list", "listjson"}
      /\ \E outcome \in StatusOutcomes(call[i].pc) :
           LET c == Recv(call[i], call[i].pc, <<outcome>>)
               get == [c EXCEPT !.reqs = Append(@, Req("GET", "/api/tags"))]
           IN  /\ CASE c.pc = "tags" ->
                         /\ isRunning' = (outcome = "200")
                         /\ failStreak' = Streak(outcome)
                         /\ ollamaConnected' = (outcome = "200")
                         /\ modelLoaded' = modelLoaded
                         /\ IF outcome = "200"
                            THEN /\ call' = [call EXCEPT ![i] = [get EXCEPT !.pc = "tags2"]]
                                 /\ output' = output
                            ELSE /\ call' = [call EXCEPT ![i] = IdleCall]
                                 /\ output' = Append(output,
                                      Entry("info", <<"Ollama is not running at ", baseUrl,
                                                      ". Please start Ollama to use the Code Wizard.">>, 0))
                    [] c.pc = "tags2" ->
                         /\ isRunning' = (outcome = "200")
                         /\ failStreak' = Streak(outcome)
                         /\ call' = [call EXCEPT ![i] =
                                       IF outcome = "200" THEN [get EXCEPT !.pc = "list"] ELSE IdleCall]
                         /\ UNCHANGED <<ollamaConnected, modelLoaded, output>>
                    [] c.pc = "list" ->
                         /\ IF outcome = "response"
                            THEN /\ call' = [call EXCEPT ![i] = [c EXCEPT !.pc = "listjson"]]
                                 /\ UNCHANGED <<modelLoaded, output>>
                            ELSE /\ call' = [call EXCEPT ![i] = IdleCall]
                                 /\ modelLoaded' = FALSE
                                 /\ output' = Append(output, StatusEntry(FALSE))
                         /\ UNCHANGED <<isRunning, failStreak, ollamaConnected>>
                    [] OTHER ->
                         /\ call' = [call EXCEPT ![i] = IdleCall]
                         /\ modelLoaded' = (outcome = "listed")
                         /\ output' = Append(output, StatusEntry(outcome = "listed"))
                         /\ UNCHANGED <<isRunning, failStreak, ollamaConnected>>
               /\ checks' = [checks EXCEPT ![CheckOf(i)] =
                    [@ EXCEPT !.running = IF c.pc # "tags" THEN @
                                          ELSE IF outcome = "200" THEN "yes" ELSE "no",
                              !.entries = SubSeq(output', Len(output) + 1, Len(output')),
                              !.over = call'[i] = IdleCall]]
      /\ UNCHANGED <<baseUrl, epChanges, tests, routerVars, extractVars, splitVars, fileVars,
                     os, isProcessing, showInstallInstructions, activeTab, timers,
                     sends, invs, fetches>>

\* handleAICommand without its catch: a throw of streamCompletion escapes
\* through handleSendCommand, which never reaches its last statement
SendResumesUnlessThrown(c) == c.outcome # "throw"

\* whether handleSendCommand resumes after the await of handleAICommand once
\* streamCompletion has settled as c: handleAICommand catches what it throws
SendResumes(c) == c.outcome \in {"return", "throw"}

\* handleAICommand and handleSendCommand once streamCompletion has settled
\* as c: the callback's entries, the catch's fallback, setIsProcessing(false)
AiAdvance(i, c, fallback) ==
    LET inv == Len(invs)
        sunk == SinkFrom(c, Len(call[i].chunks), inv)
    IN  /\ fetches' = [fetches EXCEPT ![inv] = c.reqs]
        /\ invs' = [invs EXCEPT ![inv].failures = @ \o FailureOf(c)]
        /\ IF c.pc = "done"
           THEN /\ call' = [call EXCEPT ![i] = IdleCall]
                /\ output' = output \o sunk \o
                     (IF c.outcome = "throw" THEN <<Entry("response", fallback, inv)>> ELSE <<>>)
                /\ isProcessing' = ~SendResumes(c)
                /\ sends' = IF SendResumes(c) THEN sends \ {inv} ELSE sends
           ELSE /\ call' = [call EXCEPT ![i] = c]
                /\ output' = output \o sunk
                /\ UNCHANGED <<isProcessing, sends>>

\* the probe of the streamCompletion that handleAICommand awaits settles
AiTags ==
    \E i \in CallIds, outcome \in TagsOutcomes :
      /\ call[i].owner = "ui"
      /\ call[i].pc = "tags"
      /\ isRunning' = (outcome = "200")
      /\ failStreak' = Streak(outcome)
      /\ \E fallback \in CannedResponses :
           AiAdvance(i, AfterProbe(Recv(call[i], "tags", <<outcome>>), outcome), fallback)
      /\ UNCHANGED <<baseUrl, epChanges, tests, routerVars, extractVars,
                     splitVars, fileVars, checks, os, ollamaConnected, modelLoaded,
                     showInstallInstructions, activeTab, timers>>

\* its POST settles
AiPost ==
    \E i \in CallIds, outcome \in PostOutcomes :
      /\ call[i].owner = "ui"
      /\ call[i].pc = "post"
      /\ AiAdvance(i, AfterPost(Recv(call[i], "post", <<outcome>>), outcome), <<>>)
      /\ UNCHANGED <<baseUrl, isRunning, failStreak, epChanges, tests, routerVars, extractVars,
                     splitVars, fileVars, checks, os,
                     ollamaConnected, modelLoaded, showInstallInstructions, activeTab,
                     timers>>

\* a read of its response body settles
AiRead ==
    \E i \in CallIds :
      /\ call[i].owner = "ui"
      /\ call[i].pc = "read"
      /\ \E ev \in UIReadEvents(call[i]) :
           AiAdvance(i, AfterRead(Recv(call[i], ev.kind, ev.chunk), ev), <<>>)
      /\ UNCHANGED <<baseUrl, isRunning, failStreak, epChanges, tests, routerVars, extractVars,
                     splitVars, fileVars, checks, os,
                     ollamaConnected, modelLoaded, showInstallInstructions, activeTab,
                     timers>>

UINext ==
    \/ Submit
    \/ SshTimer
    \/ RunTimer
    \/ PullTick
    \/ ExecTimer
    \/ StatusRespond
    \/ AiTags
    \/ AiPost
    \/ AiRead

SpecUI == UIInit /\ [][UINext]_vars

\* every pending fetch, read and timer of a suspended handleSendCommand
\* settles, and the event loop then runs its continuation
SpecUIFair ==
    /\ UIInit
    /\ [][UINext]_vars
    /\ WF_vars(AiTags)
    /\ WF_vars(AiPost)
    /\ WF_vars(AiRead)
    /\ WF_vars(ExecTimer)


-----------------------------------------------------------------------------
(* The status check of the component, run again whenever the endpoint of    *)
(* the settings changes                                                     *)

\* the settings panel reports another endpoint: the first effect calls
\* setEndpoint unless the text is empty, the second starts checkOllamaStatus,
\* whose probe goes on the wire
ChangeEndpoint ==
    /\ epChanges < MaxEpChanges
    /\ FreeSlots # {}
    /\ \E e \in Endpoints \ {baseUrl} :
         LET endpoint == IF e = "" THEN baseUrl ELSE e
             i == Min(FreeSlots)
         IN  /\ baseUrl' = endpoint
             /\ failStreak' = IF endpoint = baseUrl THEN failStreak ELSE 0
             /\ call' = [call EXCEPT ![i] =
                           [BeginProbe("status", "status") EXCEPT
                              !.reqs = <<[method |-> "GET", endpoint |-> endpoint,
                                          path |-> "/api/tags"]>>]]
             /\ checks' = Append(checks, Check(i, endpoint))
    /\ epChanges' = epChanges + 1
    /\ UNCHANGED <<isRunning, tests, routerVars, extractVars, splitVars, os, output,
                   isProcessing, ollamaConnected, modelLoaded, showInstallInstructions,
                   activeTab, timers, sends, invs, fetches, fileVars>>

StatusNext ==
    \/ ChangeEndpoint
    \/ StatusRespond

SpecStatus == UIInit /\ [][StatusNext]_vars

-----------------------------------------------------------------------------
(* The whole panel: commands submitted while earlier ones still have timers  *)
(* pending, the tabs, and the file explorer of the "files" tab              *)

\* one input of each kind of handler: one that only arms a timer, one that
\* awaits a streamed generation, one that awaits executeCommand
PanelInputs == { Join(<<SshUpper, Hi>>), Hi, Ls \o <<" ", "/">> }

\* inputs whose handlers only arm timers
TimerInputs == { Join(<<Ollama, Pull, Hi>>), Join(<<SshUpper, Hi>>) }

\* the component once the checkOllamaStatus of its mount is over: the server
\* did not answer, or it answered and listed the model or not
PanelInit ==
    /\ baseUrl = DefaultEndpoint
    /\ call = [i \in CallIds |-> IdleCall]
    /\ epChanges = 0
    /\ tests = <<>>
    /\ NoInput
    /\ NoText
    /\ NoBody
    /\ os = "linux"
    /\ isProcessing = FALSE
    /\ showInstallInstructions = FALSE
    /\ activeTab = "commands"
    /\ timers = {}
    /\ sends = {}
    /\ invs = <<>>
    /\ fetches = <<>>
    /\ fileOps = <<>>
    /\ fileStructure = FALSE
    /\ \E status \in {"down", "listed", "absent"} :
         /\ isRunning = (status # "down")
         /\ failStreak = IF status = "down" THEN 1 ELSE 0
         /\ ollamaConnected = (status # "down")
         /\ modelLoaded = (status = "listed")
         /\ output =
              <<IF status = "down"
                THEN Entry("info", <<"Ollama is not running at ", DefaultEndpoint,
                                     ". Please start Ollama to use the Code Wizard.">>, 0)
                ELSE Entry("info", <<"Ollama is running at ", DefaultEndpoint,
                                     ". Model qwen2.5-coder:14b is ",
                                     IF status = "listed" THEN "loaded" ELSE "not loaded",
                                     ".">>, 0)>>
         /\ checks = <<[slot |-> 1, endpoint |-> DefaultEndpoint,
                        running |-> IF status = "down" THEN "no" ELSE "yes",
                        entries |-> output, over |-> TRUE]>>

SubmitNext == SubmitOf(PanelInputs, MaxSubmits)

\* commands on top of one another
PanelNext ==
    \/ SubmitNext
    \/ SshTimer
    \/ ExecTimer
    \/ AiTags
    \/ AiPost
    \/ AiRead

SpecPanel == PanelInit /\ [][PanelNext]_vars

SubmitTimed == SubmitOf(TimerInputs, MaxSubmits)

\* timer-driven handlers on top of one another
TimersNext ==
    \/ SubmitTimed
    \/ SshTimer
    \/ PullTick

SpecTimers == PanelInit /\ [][TimersNext]_vars

SubmitOnce == SubmitOf(PanelInputs, MaxCmds)

Tabs == {"commands", "files"}

\* the disabled attribute of the Load and Warpify buttons without the flag
ButtonDisabledWhenEmpty(processing, empty) == empty

\* the disabled attribute of the Load and Warpify buttons
ButtonDisabled(processing, empty) == processing \/ empty

\* history: a FileExplorer operation that begins now
FileOp(op) == [op |-> op, mounted |-> TRUE, over |-> FALSE]

\* history: the FileExplorer operations suspended at an await
PendingFileOps == {k \in 1..Len(fileOps) : ~fileOps[k].over}

\* the Tabs' onValueChange: TabsContent renders the selected tab only, so the
\* FileExplorer is mounted anew, or unmounted with its state
SelectTab ==
    \E tab \in Tabs \ {activeTab} :
      /\ activeTab' = tab
      /\ fileStructure' = FALSE
      /\ fileOps' = [k \in 1..Len(fileOps) |-> [fileOps[k] EXCEPT !.mounted = FALSE]]
      /\ UNCHANGED <<svcVars, routerVars, extractVars, splitVars, os, output, isProcessing,
                     ollamaConnected, modelLoaded, showInstallInstructions, timers,
                     sends, invs, fetches, checks>>

\* a click on Load: loadFileStructure up to its await of the timeout
LoadFiles ==
    /\ activeTab = "files"
    /\ Len(fileOps) < MaxFileOps
    /\ \E currentPath \in {<<"/">>} :
         /\ ~ButtonDisabled(isProcessing, currentPath = <<>>)
         /\ isProcessing' = TRUE
         /\ fileOps' = Append(fileOps, FileOp("load"))
         /\ timers' = timers \cup {Timer(0, "load", Len(fileOps) + 1)}
    /\ UNCHANGED <<svcVars, routerVars, extractVars, splitVars, os, output, ollamaConnected,
                   modelLoaded, showInstallInstructions, activeTab, sends, invs, fetches,
                   fileStructure, checks>>

\* the timeout loadFileStructure awaits, then the rest of it and its finally
LoadTimer ==
    \E t \in timers :
      /\ t.kind = "load"
      /\ timers' = timers \ {t}
      /\ fileStructure' = (fileStructure \/ fileOps[t.arg].mounted)
      /\ fileOps' = [fileOps EXCEPT ![t.arg].over = TRUE]
      /\ isProcessing' = FALSE
      /\ UNCHANGED <<svcVars, routerVars, extractVars, splitVars, os, output, ollamaConnected,
                     modelLoaded, showInstallInstructions, activeTab, sends, invs, fetches,
                     checks>>

\* a click on Warpify with files selected: handleAnalyzeFiles up to the await
\* of analyzeFilesOrFolders, which is at its probe
AnalyzeFiles ==
    /\ activeTab = "files"
    /\ Len(fileOps) < MaxFileOps
    /\ FreeSlots # {}
    /\ ~ButtonDisabled(isProcessing, ~fileStructure)
    /\ isProcessing' = TRUE
    /\ fileOps' = Append(fileOps, FileOp("analyze"))
    /\ call' = [call EXCEPT ![Min(FreeSlots)] = BeginProbe("analyze", "files")]
    /\ UNCHANGED <<baseUrl, isRunning, failStreak, epChanges, tests, routerVars, extractVars,
                   splitVars, os, output, ollamaConnected, modelLoaded,
                   showInstallInstructions, activeTab, timers, sends, invs, fetches,
                   fileStructure, checks>>

\* analyzeFilesOrFolders after its own probe: it throws, or calls
\* generateCompletion, which probes again
AfterAnalyzeProbe(c, outcome) ==
    IF outcome = "200"
    THEN [c EXCEPT !.op = "generate", !.reqs = Append(@, Req("GET", "/api/tags"))]
    ELSE Threw(c, <<"Ollama is not running">>)

\* handleAnalyzeFiles once an await inside analyzeFilesOrFolders has settled
\* as c: when the call is over, onAnalyze or the catch, then the finally
AnalyzeAdvance(i, c) ==
    IF c.pc = "done"
    THEN LET k == CHOOSE k \in PendingFileOps : fileOps[k].op = "analyze"
         IN  /\ call' = [call EXCEPT ![i] = IdleCall]
             /\ output' = IF c.outcome = "return"
                           THEN Append(output,
                                  Entry("response",
                                        <<"Analysis of selected files:\n\n">> \o c.value, 0))
                           ELSE output
             /\ isProcessing' = FALSE
             /\ fileOps' = [fileOps EXCEPT ![k].over = TRUE]
    ELSE /\ call' = [call EXCEPT ![i] = c]
         /\ UNCHANGED <<output, isProcessing, fileOps>>

\* a probe of the analysis settles
AnalyzeTags ==
    \E i \in CallIds, outcome \in TagsOutcomes :
      /\ call[i].owner = "files"
      /\ call[i].pc = "tags"
      /\ isRunning' = (outcome = "200")
      /\ failStreak' = Streak(outcome)
      /\ LET c == Recv(call[i], "tags", <<outcome>>)
         IN  AnalyzeAdvance(i, IF c.op = "analyze"
                               THEN AfterAnalyzeProbe(c, outcome)
                               ELSE AfterProbe(c, outcome))
      /\ UNCHANGED <<baseUrl, epChanges, tests, routerVars, extractVars, splitVars, os,
                     ollamaConnected, modelLoaded, showInstallInstructions, activeTab,
                     timers, sends, invs, fetches, fileStructure, checks>>

\* its POST settles, or the json() of its response
AnalyzeRespond ==
    \E i \in CallIds :
      /\ call[i].owner = "files"
      /\ \/ /\ call[i].pc = "post"
            /\ \E outcome \in PostOutcomes \ {"nobody"} :
                 AnalyzeAdvance(i, AfterPost(Recv(call[i], "post", <<outcome>>), outcome))
         \/ /\ call[i].pc = "json"
            /\ \E line \in {ObjB, Garbage} :
                 AnalyzeAdvance(i, AfterJson(Recv(call[i], "json", <<line>>), JSONparse(line)))
      /\ UNCHANGED <<baseUrl, isRunning, failStreak, epChanges, tests, routerVars, extractVars,
                     splitVars, os, ollamaConnected, modelLoaded, showInstallInstructions,
                     activeTab, timers, sends, invs, fetches, fileStructure, checks>>

\* the command input and the file explorer side by side
FilesNext ==
    \/ SubmitOnce
    \/ SshTimer
    \/ ExecTimer
    \/ AiTags
    \/ AiPost
    \/ AiRead
    \/ SelectTab
    \/ LoadFiles
    \/ LoadTimer
    \/ AnalyzeFiles
    \/ AnalyzeTags
    \/ AnalyzeRespond

SpecFiles == PanelInit /\ [][FilesNext]_vars

-----------------------------------------------------------------------------
(* One response body, delivered to streamCompletion in differently cut reads *)

\* what follows Garbage in ObjA: the transport cut the line in two
Rest == "ne:false}"

\* the bytes of a read: its lines joined by \n
ReadChars(chunk) == JoinChars(chunk, <<Newline>>)

\* well-formed response bodies: complete objects and blank lines
Bodies ==
    {b \in SeqsUpTo({ObjA, ObjB, ""}, MaxBodyLines) : ReadChars(b) # <<>>}

\* the ways the transport delivers body b: in one read, or cut once, after a
\* newline, before a newline, or inside an object
Cuts(b) ==
    {<<b>>}
    \cup {<<SubSeq(b, 1, k) \o <<"">>, SubSeq(b, k + 1, Len(b))>> : k \in 1..(Len(b) - 1)}
    \cup {<<SubSeq(b, 1, k), <<"">> \o SubSeq(b, k + 1, Len(b))>> : k \in 1..(Len(b) - 1)}
    \cup {<<SubSeq(b, 1, k - 1) \o <<Garbage>>, <<Rest>> \o SubSeq(b, k + 1, Len(b))>> :
            k \in {j \in 1..Len(b) : b[j] = ObjA}}

\* streamCompletion once its probe has answered 200 and its POST has a body:
\* about to read
Streaming ==
    AfterPost(Recv(AfterProbe(Recv(BeginProbe("stream", "caller"), "tags", <<"200">>),
                              "200"),
                   "post", <<"body">>),
              "body")

SplitInit ==
    /\ baseUrl = DefaultEndpoint
    /\ isRunning = TRUE
    /\ failStreak = 0
    /\ epChanges = 0
    /\ tests = <<>>
    /\ call = [i \in CallIds |-> IF i = 1 THEN Streaming ELSE IdleCall]
    /\ NoInput
    /\ NoText
    /\ EmptyUI
    /\ whole \in Bodies
    /\ toRead \in {rs \in Cuts(whole) :
                     /\ Flatten([n \in 1..Len(rs) |-> ReadChars(rs[n])]) = ReadChars(whole)
                     /\ \A n \in 1..Len(rs) : ReadChars(rs[n]) # <<>>}

\* reader.read() settles with the next read of the body, or with its end
ReadSplit ==
    /\ call[1].pc = "read"
    /\ LET ev == IF toRead = <<>>
                 THEN [kind |-> "eof", chunk |-> <<>>]
                 ELSE [kind |-> "chunk", chunk |-> Head(toRead)]
       IN  call' = [call EXCEPT ![1] = AfterRead(Recv(call[1], ev.kind, ev.chunk), ev)]
    /\ toRead' = IF toRead = <<>> THEN toRead ELSE Tail(toRead)
    /\ UNCHANGED <<baseUrl, isRunning, failStreak, epChanges, tests, routerVars, extractVars,
                   whole, uiVars>>

SpecSplit == SplitInit /\ [][ReadSplit]_vars

-----------------------------------------------------------------------------
(* Vocabulary of the properties *)

Last(s) == s[Len(s)]

IsStream(c) == c.op = "stream"
ProbeOver(c) == c.op # "idle" /\ c.pc # "tags"

NonBlank(chunk) == SelectSeq(chunk, LAMBDA line : line # "")
ChunkEvents(c) == SelectSeq(c.rx, LAMBDA e : e.kind = "chunk")
ReadEventsSeen(c) == SelectSeq(c.rx, LAMBDA e : e.kind \in {"chunk", "eof", "error"})

\* the lines of a chunk that precede its first unparsable line
RECURSIVE GoodPrefix(_)
GoodPrefix(lines) ==
    IF lines = <<>> \/ ~JSONparse(Head(lines)).ok
    THEN <<>>
    ELSE <<Head(lines)>> \o GoodPrefix(Tail(lines))

\* a sequence of objects, cut after its first done=true object
RECURSIVE UpToDone(_)
UpToDone(objs) ==
    IF objs = <<>> THEN <<>>
    ELSE IF JSONparse(Head(objs)).done THEN <<Head(objs)>>
    ELSE <<Head(objs)>> \o UpToDone(Tail(objs))

RECURSIVE ArrivedObjects(_)
ArrivedObjects(events) ==
    IF events = <<>> THEN <<>>
    ELSE GoodPrefix(NonBlank(Head(events).what)) \o ArrivedObjects(Tail(events))

AsCall(line) == [text |-> <<JSONparse(line).response>>, done |-> JSONparse(line).done]

IsDecoded(k) == Len(k.text) = 1 /\ k.text[1] \in {RespA, RespB}
IsErrorText(k) == Len(k.text) = 2 /\ k.text[1] = "Error: "
DecodedCalls(c) == SelectSeq(c.chunks, IsDecoded)
TerminalCalls(c) == SelectSeq(c.chunks, LAMBDA k : k.done)
ErrorCalls(c) == SelectSeq(c.chunks, IsErrorText)

HasUnparsableLine(chunk) == \E j \in 1..Len(chunk) : chunk[j] # "" /\ ~JSONparse(chunk[j]).ok

\* JSON.parse is reached on an unparsable line: no done=true object precedes it
ParseFails(chunk) ==
    LET lines == NonBlank(chunk)
        good == GoodPrefix(lines)
    IN  /\ Len(good) < Len(lines)
        /\ \A j \in 1..Len(good) : ~JSONparse(good[j]).done

TransportError(e) ==
    \/ e.kind = "post" /\ e.what \in {<<"neterr">>, <<"nobody">>}
    \/ e.kind = "error"

-----------------------------------------------------------------------------
(* C1. A probe of an endpoint that never answers 200 returns false after   *)
(* exactly 3 GET attempts, having waited 1000ms, 2000ms and 4000ms between *)
(* them.                                                                   *)
ProbeRetriesThreeTimes ==
    \A i \in CallIds :
      (call[i].op = "probe" /\ call[i].pc = "done" /\ ~call[i].running)
        => /\ Len(Gets(call[i])) = 3
           /\ call[i].waits = <<1000, 2000, 4000>>

(* C2. The number of failed attempts counted since the last success, reset *)
(* or endpoint change never exceeds 3, and once it is 3 no probe puts a    *)
(* request on the wire.                                                    *)
AttemptsNeverExceedThree ==
    /\ failStreak <= 3
    /\ failStreak >= 3 => \A i \in CallIds : call[i].pc # "tags"

(* C3. A generateCompletion or streamCompletion call whose probe found the *)
(* server not running has thrown "Ollama is not running", has sent no POST *)
(* and has not invoked onChunk.                                            *)
NotRunningMakesNoRequest ==
    \A i \in CallIds :
      (call[i].op \in {"generate", "stream"} /\ ProbeOver(call[i]) /\ ~call[i].running)
        => /\ call[i].pc = "done"
           /\ call[i].outcome = "throw"
           /\ call[i].value = <<"Ollama is not running">>
           /\ Posts(call[i]) = <<>>
           /\ call[i].chunks = <<>>

NotRunningWitness ==
    \E i \in CallIds :
      /\ IsStream(call[i]) /\ call[i].pc = "done" /\ ~call[i].running
      /\ Last(call[i].rx).what = <<"503">>

(* C4. The onChunk calls made for decoded objects are the objects that     *)
(* arrived, once each and in arrival order, up to the first done=true      *)
(* object; that call is the last onChunk call and no read follows it.      *)
DoneObjectIsTerminal ==
    \A i \in CallIds :
      IsStream(call[i]) =>
        LET c == call[i]
            want == UpToDone(ArrivedObjects(ChunkEvents(c)))
        IN  /\ DecodedCalls(c) = [j \in 1..Len(want) |-> AsCall(want[j])]
            /\ \A k \in 1..Len(c.chunks) : c.chunks[k].done => k = Len(c.chunks)
            /\ (\E k \in 1..Len(c.chunks) : c.chunks[k].done)
                 => c.pc = "done" /\ c.reads = Len(ReadEventsSeen(c))

DoneObjectWitness ==
    \E i \in CallIds :
      /\ IsStream(call[i])
      /\ ChunkEvents(call[i]) = <<[kind |-> "chunk", what |-> <<ObjA>>],
                                  [kind |-> "chunk", what |-> <<ObjB, ObjA>>]>>
      /\ call[i].chunks = <<[text |-> <<RespA>>, done |-> FALSE],
                            [text |-> <<RespB>>, done |-> TRUE]>>

(* C5. A streamCompletion call that met a transport error (rejected POST,  *)
(* null body, rejected read) has invoked onChunk exactly once with an      *)
(* error text, with done=true, as its last and only terminal call, and has *)
(* returned without throwing.                                              *)
TransportErrorReportedOnce ==
    \A i \in CallIds :
      (IsStream(call[i]) /\ call[i].rx # <<>> /\ TransportError(Last(call[i].rx)))
        => LET c == call[i]
           IN  /\ c.pc = "done" /\ c.outcome = "return"
               /\ Len(ErrorCalls(c)) = 1
               /\ IsErrorText(Last(c.chunks)) /\ Last(c.chunks).done
               /\ Len(TerminalCalls(c)) = 1

TransportErrorWitness ==
    \E i \in CallIds :
      /\ IsStream(call[i])
      /\ Len(call[i].rx) = 4
      /\ Last(call[i].rx).kind = "error"
      /\ Len(call[i].chunks) = 2

(* C6, as stated. Every received chunk holding a line that is not JSON has *)
(* been passed to onChunk verbatim with done=false, and the stream went on *)
(* to its next read.                                                       *)
UnparsableChunkPassedRaw ==
    \A i \in CallIds :
      IsStream(call[i]) =>
        \A n \in 1..Len(call[i].rx) :
          LET e == call[i].rx[n]
          IN  (e.kind = "chunk" /\ HasUnparsableLine(e.what))
                => /\ \E k \in 1..Len(call[i].chunks) :
                        call[i].chunks[k] = [text |-> e.what, done |-> FALSE]
                   /\ n = Len(call[i].rx) => call[i].pc = "read"

(* C6, amended. Every received chunk in which JSON.parse fails on a line   *)
(* (no done=true object precedes the unparsable line in that chunk) has    *)
(* been passed to onChunk verbatim with done=false, and the stream went on *)
(* to its next read.                                                       *)
FailedParsePassedRaw ==
    \A i \in CallIds :
      IsStream(call[i]) =>
        \A n \in 1..Len(call[i].rx) :
          LET e == call[i].rx[n]
          IN  (e.kind = "chunk" /\ ParseFails(e.what))
                => /\ \E k \in 1..Len(call[i].chunks) :
                        call[i].chunks[k] = [text |-> e.what, done |-> FALSE]
                   /\ n = Len(call[i].rx) => call[i].pc = "read"

FailedParseWitness ==
    \E i \in CallIds :
      /\ IsStream(call[i])
      /\ ChunkEvents(call[i]) = <<[kind |-> "chunk", what |-> <<ObjA, Garbage>>]>>
      /\ call[i].chunks = <<[text |-> <<RespA>>, done |-> FALSE],
                            [text |-> <<ObjA, Garbage>>, done |-> FALSE]>>
      /\ call[i].pc = "read"

-----------------------------------------------------------------------------
(* The rule lists the router is compared with: (predicate, handler) pairs, *)
(* the first matching rule deciding                                        *)

FirstMatch(rules, cmd) ==
    rules[CHOOSE k \in 1..Len(rules) :
            /\ rules[k].matches
            /\ \A j \in 1..(k - 1) : ~rules[j].matches].handler

Rule(matches, handler) == [matches |-> matches, handler |-> handler]

\* the six rules of the specification
SixRules(cmd) ==
    << Rule(IsOllama(cmd) /\ HasRun(cmd), "handleOllamaRunCommand"),
       Rule(IsOllama(cmd) /\ HasPull(cmd), "handleOllamaPullCommand"),
       Rule(IsInstall(cmd), "showInstallInstructions"),
       Rule(IsSsh(cmd), "handleSSHCommand"),
       Rule(IsSystem(cmd), "executeCommand"),
       Rule(TRUE, "handleAICommand") >>

\* the six rules, with the two the code adds
EightRules(cmd) ==
    << Rule(IsOllama(cmd) /\ HasRun(cmd), "handleOllamaRunCommand"),
       Rule(IsOllama(cmd) /\ HasPull(cmd), "handleOllamaPullCommand"),
       Rule(IsOllama(cmd), "executeCommand"),
       Rule(IsInstall(cmd), "showInstallInstructions"),
       Rule(IsSsh(cmd), "handleSSHCommand"),
       Rule(IsWarpify(cmd), "showFileExplorer"),
       Rule(IsSystem(cmd), "executeCommand"),
       Rule(TRUE, "handleAICommand") >>

MatchesNoneOfRulesOneToFive(cmd) ==
    /\ ~(IsOllama(cmd) /\ HasRun(cmd))
    /\ ~(IsOllama(cmd) /\ HasPull(cmd))
    /\ ~IsInstall(cmd)
    /\ ~IsSsh(cmd)
    /\ ~IsSystem(cmd)

(* C7, as stated. Every input is dispatched to exactly one handler: that   *)
(* of the first matching rule among (1) ollama prefix with run, (2) ollama *)
(* prefix with pull, (3) install phrase, (4) ssh prefix, (5) allow-listed  *)
(* prefix, (6) free text.                                                  *)
RoutedBySixRules ==
    routed # <<>> => routed = <<FirstMatch(SixRules(input), input)>>

(* C7, amended. Every input is dispatched to exactly one handler: that of  *)
(* the first matching rule among (1) ollama prefix with run, (2) ollama    *)
(* prefix with pull, (2a) any other ollama prefix: simulated execution,    *)
(* (3) install phrase, (4) ssh prefix, (4a) warpify prefix or "analyze"    *)
(* anywhere: file explorer, (5) allow-listed prefix, (6) free text.        *)
RoutedByEightRules ==
    routed # <<>> => routed = <<FirstMatch(EightRules(input), input)>>

RunBeatsPullWitness ==
    /\ input = Join(<<Ollama, Pull, Run>>)
    /\ routed = <<"handleOllamaRunCommand">>

(* C8, as stated. Every input matching none of rules 1-5 is dispatched to  *)
(* the free-text prompt handler.                                           *)
UnmatchedGoesToPrompt ==
    (routed # <<>> /\ MatchesNoneOfRulesOneToFive(input))
      => routed = <<"handleAICommand">>

(* C8, amended. Every input matching none of rules 1-5 is dispatched to    *)
(* the free-text prompt handler unless it starts with "ollama" (then it is *)
(* executed as a simulated command) or starts with "warpify" or contains   *)
(* "analyze" (then the file explorer is shown).                            *)
UnmatchedGoesToPromptUnlessOllamaOrAnalyze ==
    (routed # <<>> /\ MatchesNoneOfRulesOneToFive(input))
      => routed = << IF IsOllama(input) THEN "executeCommand"
                     ELSE IF IsWarpify(input) THEN "showFileExplorer"
                     ELSE "handleAICommand" >>

FreeTextWitness ==
    /\ input = Join(<<Hi, Run, Ls>>)
    /\ routed = <<"handleAICommand">>

-----------------------------------------------------------------------------
(* The output log, per submitted command *)

IsPrefixOf(s, t) == Len(s) <= Len(t) /\ SubSeq(t, 1, Len(s)) = s
AIRuns == {k \in 1..Len(invs) : invs[k].handler = "handleAICommand"}
PullRuns == {k \in 1..Len(invs) : invs[k].handler = "handleOllamaPullCommand"}
\* what the handler of invocation k appended: everything after the command entry
HandlerEntries(k) == Tail(EntriesOf(k))
PullCompleted(k) == ~\E t \in timers : t.inv = k
PullModel(k) == ModelAfter(invs[k].command, Pull)
Progress(k, percent) == Entry("response", <<"Download progress: ", percent, "%">>, k)
PullSuccess(k) ==
    Entry("response", <<"Model ">> \o PullModel(k) \o <<" pulled successfully.">>, k)
PullExpected(k) ==
    <<Progress(k, "20"), Progress(k, "40"), Progress(k, "60"), Progress(k, "80"),
      Progress(k, "100"), PullSuccess(k)>>
\* the entries of a pull after its opening "Pulling model" line
PullTrail(k) == Tail(HandlerEntries(k))

(* C9. A free-text prompt handled while the component holds the server to *)
(* be not running appends exactly one entry, of type error and other than  *)
(* the model-not-loaded error, and puts no request on the wire (no probe,  *)
(* no generate request).                                                   *)
NotConnectedPromptOneErrorNoFetch ==
    \A k \in AIRuns :
      ~invs[k].connected =>
        /\ Len(HandlerEntries(k)) = 1
        /\ HandlerEntries(k)[1].type = "error"
        /\ HandlerEntries(k)[1].content # NotLoadedError
        /\ fetches[k] = <<>>

NotConnectedPromptWitness ==
    \E k \in AIRuns :
      /\ ~invs[k].connected
      /\ HandlerEntries(k) = <<Entry("error", NotRunningError, k)>>

(* C10. A pull appends the progress entries 20, 40, 60, 80, 100 in that    *)
(* order, each as its own entry, then exactly one success entry, and       *)
(* nothing else: no progress above 100, nothing after the success entry.   *)
(* Once its interval is cleared all six are there.                         *)
PullProgressThenSuccess ==
    \A k \in PullRuns :
      /\ IsPrefixOf(PullTrail(k), PullExpected(k))
      /\ PullCompleted(k) => PullTrail(k) = PullExpected(k)

PullCompletedWitness ==
    \E k \in PullRuns :
      /\ PullCompleted(k)
      /\ Len(PullTrail(k)) = 6
      /\ modelLoaded

(* C11. Every submitted input has exactly one entry of type command, which *)
(* echoes the raw input and precedes every other entry its handling        *)
(* appends, whichever handler it was routed to.                            *)
CommandEchoedFirst ==
    \A k \in 1..Len(invs) :
      LET es == EntriesOf(k)
      IN  /\ es # <<>>
          /\ es[1] = Entry("command", invs[k].command, k)
          /\ \A j \in 2..Len(es) : es[j].type # "command"

CommandEchoedWitness ==
    \E k \in 1..Len(invs) :
      /\ invs[k].handler = "handleSSHCommand"
      /\ Len(EntriesOf(k)) = 4
      /\ EntriesOf(k)[1].type = "command"

Finished(k) == k \notin sends
HasPiece(content, piece) == \E j \in 1..Len(content) : content[j] = piece

(* C12. Every failure met while a command is handled is surfaced as an     *)
(* entry of type error; a server-not-running condition or transport error  *)
(* of a streamed generation never ends up in an entry of type response,    *)
(* nor as a canned substitute answer.                                      *)
FailuresSurfaceAsErrors ==
    \A k \in 1..Len(invs) :
      (invs[k].failures # <<>> /\ Finished(k)) =>
        LET es == EntriesOf(k)
        IN  /\ \E j \in 1..Len(es) : es[j].type = "error"
            /\ \A j \in 1..Len(es) :
                 es[j].type = "response" =>
                   /\ es[j].content \notin CannedResponses
                   /\ ~HasPiece(es[j].content, "Error: ")

ProbeReturnsStatus ==
    \A i \in CallIds :
      (call[i].op = "probe" /\ call[i].pc = "done") =>
        /\ call[i].outcome = "return"
        /\ call[i].running = (Last(call[i].rx).what = <<"200">>)
        /\ isRunning = call[i].running

ProbeNetworkErrorWitness ==
    \E i \in CallIds :
      /\ call[i].op = "probe" /\ call[i].pc = "done"
      /\ Last(call[i].rx).what = <<"neterr">>
      /\ call[i].outcome = "return"
      /\ ~isRunning

BlankEndpoints == {"", "   "}

(* C15. setEndpoint called with an empty or whitespace-only string leaves  *)
(* the endpoint unchanged: no step changes the endpoint to a blank value.  *)
BlankEndpointRejected ==
    [][baseUrl' # baseUrl => baseUrl' \notin BlankEndpoints]_vars

(* C16. Whenever the endpoint changes to a non-empty value the connection  *)
(* state is reset: isRunning is false and the count of failed attempts is  *)
(* zero right after the change.                                            *)
EndpointChangeResetsState ==
    [][(baseUrl' # baseUrl /\ baseUrl' \notin BlankEndpoints)
         => (~isRunning' /\ failStreak' = 0)]_vars

(* C17. A reset zeroes the count of failed attempts and performs a probe,  *)
(* whose result it returns: right after the settings panel has called it,  *)
(* a GET /api/tags of a probe is on the wire.                              *)
ResetProbesAgain ==
    [][Len(tests') > Len(tests)
         => /\ failStreak' = 0
            /\ tests'[Len(tests')].reset.outcome # "throw"
            /\ \E i \in CallIds : call'[i].op = "probe" /\ call'[i].pc = "tags"]_vars

-----------------------------------------------------------------------------
(* The command extractor, line by line *)

Extracted == commands[1]
IsFenceLine(line) == StartsWith(line, Fence)
FenceLineCount(lines) == Cardinality({i \in 1..Len(lines) : IsFenceLine(lines[i])})
\* every fence that opens a block is closed by a later one
WellFenced(lines) == FenceLineCount(lines) % 2 = 0
\* line i lies inside a block: an odd number of fence lines precede it
InsideBlock(lines, i) ==
    /\ ~IsFenceLine(lines[i])
    /\ FenceLineCount(SubSeq(lines, 1, i)) % 2 = 1
OutsideBlocks(lines, i) ==
    /\ ~IsFenceLine(lines[i])
    /\ FenceLineCount(SubSeq(lines, 1, i)) % 2 = 0
IsBlockCommand(lines, i) ==
    /\ InsideBlock(lines, i)
    /\ Trim(lines[i]) # <<>>
    /\ ~IsComment(Trim(lines[i]))
HasMarker(line) == StartsWith(line, <<"$", " ">>) \/ StartsWith(line, <<">", " ">>)
IsPromptLine(lines, i) == OutsideBlocks(lines, i) /\ HasMarker(lines[i])
RECURSIVE BlockCommandsFrom(_, _)
BlockCommandsFrom(lines, i) ==
    IF i > Len(lines) THEN <<>>
    ELSE (IF IsBlockCommand(lines, i) THEN <<Trim(lines[i])>> ELSE <<>>)
             \o BlockCommandsFrom(lines, i + 1)
RECURSIVE PromptCommandsFrom(_, _)
PromptCommandsFrom(lines, i) ==
    IF i > Len(lines) THEN <<>>
    ELSE (IF IsPromptLine(lines, i)
          THEN <<Trim(SubSeq(lines[i], 3, Len(lines[i])))>> ELSE <<>>)
             \o PromptCommandsFrom(lines, i + 1)
\* the content lines of the blocks of a text, comments and blank lines dropped
BlockCommands(lines) == BlockCommandsFrom(lines, 1)
\* what follows the marker on the prompt lines of a text
PromptCommands(lines) == PromptCommandsFrom(lines, 1)
\* in these texts only a prompt marker can yield pwd, dir or b
FromPrompt(command) == command \in {<<"p", "w", "d">>, <<"d", "i", "r">>, <<"b">>}
LanguageTags == {<<"b", "a", "s", "h">>, <<"p", "y", "t", "h", "o", "n">>}

\* C18: the commands drawn from code blocks all come before the commands drawn
\* from prompt markers, wherever the two stand in the text: a prompt line ahead
\* of a block still yields the block's lines first; a block holding a comment, a
\* blank line and ls, followed by "$ pwd", yields ls then pwd; the empty text
\* yields no commands.
BlockLinesBeforePromptLines ==
    commands # <<>>
        => /\ \A i, j \in 1..Len(Extracted) :
                  i < j => ~(FromPrompt(Extracted[i]) /\ ~FromPrompt(Extracted[j]))
           /\ aiResponse = PromptBeforeBlock => Extracted = <<Ls, <<"p", "w", "d">>>>
           /\ aiResponse = ExampleText => Extracted = <<Ls, <<"p", "w", "d">>>>
           /\ aiResponse = <<>> => Extracted = <<>>

PromptBeforeBlockWitness ==
    /\ aiResponse = PromptBeforeBlock
    /\ commands = <<(<<Ls, <<"p", "w", "d">>>>)>>

\* C19: whatever tag a block declares, the first pass yields exactly the block's
\* content lines that are neither blank nor comments, trimmed and in order, and
\* never the tag.
BlocksYieldTheirContentLines ==
    (commands # <<>> /\ WellFenced(aiResponse))
        => /\ IsPrefixOf(BlockCommands(aiResponse), Extracted)
           /\ \A i \in 1..Len(Extracted) : Extracted[i] \notin LanguageTags

\* C20: the second pass yields only what follows a marker at the start of a
\* line outside the blocks: nothing for a line inside a block, nothing for a
\* marker in the middle of a line.
PromptsOnlyAtLineStartOutsideBlocks ==
    (commands # <<>> /\ WellFenced(aiResponse))
        => SelectSeq(Extracted, FromPrompt) = PromptCommands(aiResponse)

-----------------------------------------------------------------------------
(* The simulated executor behind the router *)

\* C23: every input sent to the simulated-execution handler because it starts
\* with an allow-listed prefix gets the success payload of its prefix family;
\* the "cannot be executed" error payload goes only to inputs whose prefix is
\* not in the allow-list.
AllowListedGetsCannedPayload ==
    \A k \in 1..Len(invs) :
      (invs[k].handler = "executeCommand" /\ IsSystem(invs[k].command) /\ Finished(k))
        => Last(EntriesOf(k)).type = "response"

-----------------------------------------------------------------------------
(* The terminal call of a stream *)

\* C24: a streamCompletion call whose probe found the server running makes no
\* done=true call while it is under way, and once it is over it has made
\* exactly one, as its last onChunk call, however the stream ended: a
\* done=true object, the end of the body, or a transport error.
ExactlyOneTerminalCall ==
    \A i \in CallIds :
      (IsStream(call[i]) /\ ProbeOver(call[i]) /\ call[i].running)
        => LET c == call[i]
           IN  IF c.pc = "done"
               THEN /\ c.outcome = "return"
                    /\ Len(TerminalCalls(c)) = 1
                    /\ Last(c.chunks).done
               ELSE TerminalCalls(c) = <<>>

EndOfBodyWitness ==
    \E i \in CallIds :
      /\ IsStream(call[i]) /\ call[i].pc = "done"
      /\ Last(call[i].rx).kind = "eof"
      /\ call[i].chunks = <<[text |-> <<RespA>>, done |-> FALSE],
                            [text |-> <<>>, done |-> TRUE]>>

\* the number of places of a sequence that hold x
Occurrences(s, x) == Cardinality({j \in 1..Len(s) : s[j] = x})

RECURSIVE Sum(_)
Sum(ns) == IF ns = <<>> THEN 0 ELSE Head(ns) + Sum(Tail(ns))

\* how often the object of line has reached onChunk: decoded, or inside a raw chunk
DeliveredCount(c, line) ==
    Sum([k \in 1..Len(c.chunks) |->
           (IF c.chunks[k] = AsCall(line) THEN 1 ELSE 0)
             + Occurrences(c.chunks[k].text, line)])

\* how often it has arrived in the body
ReceivedCount(c, line) ==
    Sum([n \in 1..Len(c.rx) |->
           IF c.rx[n].kind = "chunk" THEN Occurrences(c.rx[n].what, line) ELSE 0])

\* C25: nothing that arrived reaches onChunk twice: an object decoded and
\* delivered from a chunk is not delivered again inside the raw chunk that a
\* later unparsable line of the same chunk makes the code pass on.
NoPieceDeliveredTwice ==
    \A i \in CallIds :
      IsStream(call[i]) =>
        \A line \in {ObjA, ObjB} :
          DeliveredCount(call[i], line) <= ReceivedCount(call[i], line)

\* C27: within one generateCompletion or streamCompletion call every request
\* goes to one endpoint: the POST goes where the probe went, also when
\* setEndpoint runs while the probe is in flight.
PostGoesWhereProbeWent ==
    \A i \in CallIds :
      call[i].op \in {"generate", "stream"} =>
        \A a, b \in 1..Len(call[i].reqs) :
          call[i].reqs[a].endpoint = call[i].reqs[b].endpoint

\* the onChunk calls streamCompletion makes when the body arrives as these reads
RECURSIVE OnChunkCalls(_, _)
OnChunkCalls(c, reads) ==
    IF c.pc # "read" THEN c.chunks
    ELSE IF reads = <<>>
    THEN AfterRead(Recv(c, "eof", <<>>), [kind |-> "eof", chunk |-> <<>>]).chunks
    ELSE OnChunkCalls(AfterRead(Recv(c, "chunk", Head(reads)),
                                [kind |-> "chunk", chunk |-> Head(reads)]),
                      Tail(reads))

\* C26: the onChunk calls depend only on the concatenated body, not on how
\* the transport cuts it into reads: a body delivered in two reads, also with
\* an object cut in two, yields the calls of the same body delivered in one.
CallsIndependentOfReads ==
    (whole # <<>> /\ call[1].pc = "done")
      => call[1].chunks = OnChunkCalls(Streaming, <<whole>>)

-----------------------------------------------------------------------------
(* Where the connected and loaded flags come from *)

\* this step is the first probe of a status check answering 200
ProbeAnswered200 ==
    \E k \in 1..Len(checks) : checks[k].running = "pending" /\ checks'[k].running = "yes"

\* this step is a status check ending with the model found in the server's list
ModelListed ==
    \E k \in 1..Len(checks) :
      /\ ~checks[k].over /\ checks'[k].over
      /\ checks'[k].entries = <<StatusEntry(TRUE)>>

\* this step is the timeout of handleOllamaRunCommand
RunTimerFired == \E t \in timers : t.kind = "run" /\ timers' = timers \ {t}

\* this step is the tick of handleOllamaPullCommand that reaches 100
PullReached100 ==
    \E t \in timers : t.kind = "pull" /\ t.progress + 20 >= 100 /\ timers' = timers \ {t}

\* C29 as stated: the connected flag becomes true only in a step where a
\* probe of the server answered 200, and the loaded flag only in a step where
\* the server's model list held the model; no simulated handler sets them.
FlagsRiseOnlyOnProbes ==
    [][ /\ (~ollamaConnected /\ ollamaConnected') => ProbeAnswered200
        /\ (~modelLoaded /\ modelLoaded') => ModelListed ]_vars

\* C29, amended: the connected flag becomes true only when a probe answered
\* 200 or when the timeout of the simulated "ollama run" fires; the loaded
\* flag becomes true only when the model list held the model, when that
\* timeout fires, or when the simulated pull reaches 100.
FlagsRiseOnProbesOrSimulation ==
    [][ /\ (~ollamaConnected /\ ollamaConnected') => (ProbeAnswered200 \/ RunTimerFired)
        /\ (~modelLoaded /\ modelLoaded') =>
             (ModelListed \/ RunTimerFired \/ PullReached100) ]_vars

\* both flags are true and no probe has ever answered 200
SimulatedFlagsWitness ==
    /\ ollamaConnected /\ modelLoaded
    /\ \A k \in 1..Len(checks) : checks[k].over /\ checks[k].running = "no"
    /\ \E k \in 1..Len(invs) : invs[k].handler = "handleOllamaRunCommand"

-----------------------------------------------------------------------------
(* Commands on top of one another *)

TimerHandlers == {"handleOllamaPullCommand", "handleSSHCommand", "handleOllamaRunCommand"}

\* invocation k has appended all it will ever append
Ended(k) == k \notin sends /\ ~\E t \in timers : t.inv = k

\* the positions of the log that hold entries of invocation k
PositionsOf(k) == {p \in 1..Len(output) : output[p].inv = k}

\* entries of invocation j lie on both sides of an entry of invocation k
Interleaved(j, k) ==
    /\ j # k
    /\ \E a, c \in PositionsOf(j), b \in PositionsOf(k) : a < b /\ b < c

SshExpected(k) ==
    LET host == SshHost(invs[k].command)
    IN  <<Entry("info", <<"Connecting to ">> \o host \o <<"...">>, k),
          Entry("response", <<"Connected to ">> \o host \o
                  <<"\nTo run Ollama on this server, make sure to forward port 11434 in your SSH connection">>,
                k),
          Entry("info", <<"Tip: For remote Ollama, use: ssh -L 11434:localhost:11434 user@">>
                  \o host, k)>>

\* what a timer-driven handler appends over its whole run, in its own order
Script(k) ==
    <<Entry("command", invs[k].command, k)>> \o
    (IF invs[k].handler = "handleSSHCommand"
     THEN SshExpected(k)
     ELSE <<Entry("info", <<"Pulling model ">> \o PullModel(k) \o <<"...">>, k)>>
          \o PullExpected(k))

\* C21: the entries of one invocation stand in the log in the order its
\* handler produced them, whatever is appended in between by other
\* invocations and timers: a pull's 20 < 40 < 60 < 80 < 100 < success, a
\* remote session's connecting < connected < hint; and a step only appends to
\* the log, it changes or removes no entry.
EntriesKeepHandlerOrder ==
    /\ [](\A k \in 1..Len(invs) :
            invs[k].handler \in {"handleOllamaPullCommand", "handleSSHCommand"} =>
              /\ IsPrefixOf(EntriesOf(k), Script(k))
              /\ Ended(k) => EntriesOf(k) = Script(k))
    /\ [][IsPrefixOf(output, output')]_vars

\* a pull and a remote session, both run to their end, with entries of each
\* between entries of the other
InterleavedRunsWitness ==
    \E j, k \in 1..Len(invs) :
      /\ invs[j].handler = "handleOllamaPullCommand" /\ Ended(j)
      /\ invs[k].handler = "handleSSHCommand" /\ Ended(k)
      /\ Interleaved(j, k) /\ Interleaved(k, j)

\* C22 as stated: whatever the first command is, a second one can be
\* submitted and dispatched as long as the first has not appended all its
\* entries, also while its streamed generation is in flight.
SecondCommandAlwaysAccepted ==
    (Len(invs) = 1 /\ ~Ended(1)) => ENABLED SubmitNext

\* C22, amended: a further command is accepted exactly when the processing
\* flag is false. The flag is false while the timers of a pull or a remote
\* session are pending, so commands go on top of those and their entries
\* interleave; it is true while executeCommand or a streamed generation is
\* awaited, so no command goes on top of those: it is refused, not queued.
\* Entries of two invocations interleave only when the earlier of the two is
\* a timer-driven handler.
CommandsOverlapOnlyTimers ==
    /\ Len(invs) < MaxSubmits => (ENABLED SubmitNext <=> ~isProcessing)
    /\ \A j \in 1..Len(invs) :
         (j < Len(invs) /\ ~Ended(j)) => invs[j].handler \in TimerHandlers
    /\ \A j, k \in 1..Len(invs) :
         (j < k /\ (Interleaved(j, k) \/ Interleaved(k, j)))
           => invs[j].handler \in TimerHandlers

\* a prompt was submitted while the timer of a remote session was pending,
\* and the session's last entries stand between the entries of the prompt
OverlapWitness ==
    \E j, k \in 1..Len(invs) :
      /\ j < k
      /\ invs[j].handler = "handleSSHCommand"
      /\ invs[k].handler = "handleAICommand" /\ Ended(k)
      /\ Interleaved(k, j)

\* the operations between their setIsProcessing(true) and setIsProcessing(false)
Awaiting ==
    {<<"send", k>> : k \in sends} \cup {<<"file", k>> : k \in PendingFileOps}

\* C30: handleSendCommand, loadFileStructure and handleAnalyzeFiles are
\* never started while the processing flag is true; at most one of them is
\* between its setIsProcessing(true) and its setIsProcessing(false), and the
\* flag is true as long as one is.
ProcessingFlagExcludes ==
    /\ [](Cardinality(Awaiting) <= 1 /\ (Awaiting # {} => isProcessing))
    /\ [][(Len(invs') > Len(invs) \/ Len(fileOps') > Len(fileOps)) => ~isProcessing]_vars

\* a file analysis awaits the answer to its POST and the command input
\* refuses the command it would otherwise take
AnalysisExcludesWitness ==
    /\ \E k \in PendingFileOps : fileOps[k].op = "analyze"
    /\ \E i \in CallIds : call[i].owner = "files" /\ call[i].pc = "post"
    /\ Len(invs) = 0
    /\ ~ENABLED SubmitOnce

-----------------------------------------------------------------------------
(* Status checks that overlap *)

StatusChecksOver == \A k \in 1..Len(checks) : checks[k].over

\* C28: once every status check in flight has ended, the connected flag is
\* the answer of the probe of the check begun last, the one for the endpoint
\* now configured: a slower check begun for an earlier endpoint does not
\* overwrite it; and the info entry of a check names the endpoint that check
\* probed.
StatusReflectsLatestCheck ==
    /\ StatusChecksOver => (ollamaConnected <=> Last(checks).running = "yes")
    /\ \A k \in 1..Len(checks) :
         \A n \in 1..Len(checks[k].entries) :
           checks[k].entries[n].content[2] = checks[k].endpoint

====
